---- MODULE Spec2Model ----
(***************************************************************************)
(* The market-price estimation pipeline of the eBay research wizard        *)
(* (static/analysis/research_wizard/ebay_modal.js): parseSoldDate,         *)
(* calculateIntelligentAverage, removeOutliers, calculateStats,            *)
(* calculateBinWidth and generateHistogramData; the eBay page that calls   *)
(* them (its listeners, runEbayScrape, the saved state and its restore,    *)
(* with the overview's listeners of unnamed/part_005); and                 *)
(* sendExtensionMessage of unnamed/part_000.                               *)
(*                                                                         *)
(* Number representation.  JavaScript numbers are IEEE-754 doubles; here   *)
(*   - a price is an integer number of steps, a step being 1 / den of a    *)
(*     penny (den = 1: whole pence), below 10^7 steps;                     *)
(*   - a time (Date.getTime()) is an integer number of hours since the     *)
(*     epoch, in a UTC locale.  A Date holds a time of at most 10^8 days   *)
(*     from the epoch and is an Invalid Date beyond (InTimeRange); the     *)
(*     hours of the model's integers reach the year 245,000, so sold texts *)
(*     name years up to there or years no Date holds;                      *)
(*   - a natural logarithm is an integer multiple of 1/LogScale (1e-8),    *)
(*     right to a few units; a product of logarithms and times is kept in  *)
(*     two limbs;                                                          *)
(*   - a trust weight is an integer multiple of 1e-7 of the largest        *)
(*     weight, or, where the doubles are subnormal, the integer number of  *)
(*     units of 2^-1074 the double holds; where Math.exp overflows the     *)
(*     weights are Infinity and the estimate is NaN or Infinity;           *)
(*   - an estimate is null, NaN, Infinity or the nearest step, with a flag *)
(*     that tells that the double lies below the step named and how far    *)
(*     (gap: the very next double, one the rounding decides, or farther);  *)
(*   - the average, the median and the bin width are computed from sums,   *)
(*     differences and quotients of doubles (DoubleSum, DoubleDiff,        *)
(*     DoubleOver), held as an exact fraction and the rounding error.      *)
(* The rounding of a decimal price to its double is computed exactly       *)
(* (NearestDouble) where a comparison or a rounding turns on it.  Where    *)
(* the rounding of Math.log, Math.exp and Math.pow, which the language     *)
(* leaves to the implementation, or the rounding of a sum of rounded       *)
(* terms decides an outcome, both outcomes are modelled (Roundings).       *)
(*                                                                         *)
(* Tasks.  A handler runs to its first await in one step; what follows an  *)
(* await runs in the step of the task that settles the promise (a message  *)
(* event of the window, a timer, the answer to a fetch).  The messages     *)
(* posted to the window are dispatched one by one in the order posted.     *)
(***************************************************************************)
EXTENDS Integers, Sequences, FiniteSets, TLC

\* ------------------------------------------------------------------------
\* Fixed-point arithmetic
\* ------------------------------------------------------------------------

PencePerUnit == 10 * 10          \* pence in one currency unit
Limb == 100 * 100                \* a number is split into limbs of 4 digits
LogScale == Limb * Limb          \* logarithms are held in units of 1e-8
Ln2 == 69314718                  \* ln(2) = 0.69314718056 in units of 1e-8 ...
Ln2Low == 56                     \* ... and its next three digits
HoursPerDay == 24                \* (1000 * 60 * 60 * 24) ms, in hours

\* a / b rounded to the nearest integer (b > 0)
RDiv(a, b) == (a + (b \div 2)) \div b

Abs(x) == IF x < 0 THEN -x ELSE x

Pow2(k) == 2 ^ k

\* e + s where p >= 2^(e + s), else e
Log2Step(p, e, s) == IF p >= Pow2(e + s) THEN e + s ELSE e

\* floor(log2(p)) for 1 <= p < 2^31, found by bisection
FloorLog2(p) ==
    Log2Step(p, Log2Step(p, Log2Step(p, Log2Step(p, Log2Step(p, 0, 16), 8), 4), 2), 1)

\* a * b / LogScale rounded, for a and b in units of 1/LogScale
MulFx(a, b) ==
    (a \div Limb) * (b \div Limb)
      + RDiv((a \div Limb) * (b % Limb) + (a % Limb) * (b \div Limb)
               + RDiv((a % Limb) * (b % Limb), Limb), Limb)

\* q / d for 0 <= q < d, rounded to `digits` pairs of decimals
RECURSIVE Frac(_, _, _)
Frac(q, d, digits) ==
    IF digits = 0 THEN (IF 2 * q >= d THEN 1 ELSE 0)
    ELSE ((q * 100) \div d) * (100 ^ (digits - 1))
           + Frac((q * 100) % d, d, digits - 1)

\* sum of the odd-power series z^3/3 + ... + z^13/13 given the previous
\* power, z in units of 1/LogScale
RECURSIVE AtanhSeries(_, _, _)
AtanhSeries(term, z2, j) ==
    IF j > 13 THEN 0
    ELSE RDiv(MulFx(term, z2), j) + AtanhSeries(MulFx(term, z2), z2, j + 2)

\* ln(p / pow) = 2 atanh((p - pow) / (p + pow)), in units of 1/LogScale
LnFrom(p, pow) ==
    LET z == IF p < pow THEN -Frac(pow - p, p + pow, 4)
             ELSE Frac(p - pow, p + pow, 4)
    IN  2 * (z + AtanhSeries(z, MulFx(z, z), 3))

\* Math.log(p) for an integer p >= 1, in units of 1/LogScale:
\* p = m * 2^K with 0.7 < m <= 1.4
Ln(p) ==
    LET k == FloorLog2(p)
        K == IF 5 * p > 7 * Pow2(k) THEN k + 1 ELSE k
    IN  LnFrom(p, Pow2(K)) + K * Ln2 + RDiv(K * Ln2Low, 1000)

\* sum of r^j / j! for j = 1..11 given the previous term, r in units of
\* 1/LogScale
RECURSIVE ExpSeries(_, _, _)
ExpSeries(term, r, j) ==
    IF j > 11 THEN 0
    ELSE RDiv(MulFx(term, r), j)
           + ExpSeries(RDiv(MulFx(term, r), j), r, j + 1)

\* Math.exp(u / LogScale) as a pair: exp = (m / LogScale) * 2^k
ExpParts(u) ==
    LET k == RDiv(u, Ln2)
        r == u - k * Ln2 - RDiv(k * Ln2Low, 1000)
    IN  [m |-> LogScale + ExpSeries(LogScale, r, 1), k |-> k]

\* MulDiv for one more bit of b: twice the quotient and remainder h, plus a
\* once if the bit is set
MulDivBit(h, a, bit, c) ==
    LET q2 == 2 * h.q + (IF 2 * h.r >= c THEN 1 ELSE 0)
        r2 == IF 2 * h.r >= c THEN 2 * h.r - c ELSE 2 * h.r
        r3 == r2 + (a % c)
    IN  IF bit = 0 THEN [q |-> q2, r |-> r2]
        ELSE [q |-> q2 + (a \div c) + (IF r3 >= c THEN 1 ELSE 0),
              r |-> IF r3 >= c THEN r3 - c ELSE r3]

\* h taken through the bits of b from the one at mask down (the quotient
\* stays below 2^30)
RECURSIVE MulDivFrom(_, _, _, _, _)
MulDivFrom(h, a, b, mask, c) ==
    IF mask = 0 \/ h.q >= Pow2(30) THEN h
    ELSE MulDivFrom(MulDivBit(h, a, (b \div mask) % 2, c), a, b, mask \div 2, c)

\* the quotient and the remainder of a * b by c (a, b >= 0, 0 < c < 2^30),
\* bit by bit of b from its highest
MulDiv(a, b, c) ==
    MulDivFrom([q |-> 0, r |-> 0], a, b,
               IF b = 0 THEN 0 ELSE Pow2(FloorLog2(b)), c)

\* MulDivBig for one more bit of b
MulDivBigBit(h, a, bit, c) ==
    LET r2 == IF 2 * h.r >= c THEN 2 * h.r - c ELSE 2 * h.r
        r3 == IF bit = 1 THEN r2 + (a % c) ELSE r2
        ql == 2 * h.ql + (IF 2 * h.r >= c THEN 1 ELSE 0)
                + (IF bit = 1 THEN ((a \div c) % LogScale) ELSE 0)
                + (IF r3 >= c THEN 1 ELSE 0)
        qh == 2 * h.qh + (IF bit = 1 THEN (a \div c) \div LogScale ELSE 0)
    IN  [qh |-> qh + (ql \div LogScale), ql |-> ql % LogScale,
         r |-> IF r3 >= c THEN r3 - c ELSE r3]

\* h taken through the bits of b from the one at mask down (the high limb
\* stays below 2^30)
RECURSIVE MulDivBigFrom(_, _, _, _, _)
MulDivBigFrom(h, a, b, mask, c) ==
    IF mask = 0 \/ h.qh >= Pow2(30) THEN h
    ELSE MulDivBigFrom(MulDivBigBit(h, a, (b \div mask) % 2, c), a, b,
                       mask \div 2, c)

\* the quotient of a * b by c in two limbs, qh * LogScale + ql, and the
\* remainder (a, b >= 0, 0 < c < 2^30), bit by bit of b from its highest
MulDivBig(a, b, c) ==
    MulDivBigFrom([qh |-> 0, ql |-> 0, r |-> 0], a, b,
                  IF b = 0 THEN 0 ELSE Pow2(FloorLog2(b)), c)

\* a number q + f / LogScale with 0 <= f < LogScale
FixedLess(a, b) == a.q < b.q \/ (a.q = b.q /\ a.f < b.f)

\* (a + b) / 2
HalfSum(a, b) ==
    LET q == a.q + b.q
        f == a.f + b.f + (IF q % 2 = 1 THEN LogScale ELSE 0)
    IN  [q |-> (q \div 2) + ((f \div 2) \div LogScale),
         f |-> (f \div 2) % LogScale]

\* ------------------------------------------------------------------------
\* The double of a decimal price
\* ------------------------------------------------------------------------
\* the e with 2^e <= P / S < 2^(e + 1) for P < S, found downwards
RECURSIVE BinadeBelow(_, _, _)
BinadeBelow(P, S, j) ==
    IF P * Pow2(j) >= S THEN -j ELSE BinadeBelow(P, S, j + 1)

\* 2^k modulo m (m of at most 4 digits), by squaring
RECURSIVE Pow2Mod(_, _)
Pow2Mod(k, m) ==
    IF k = 0 THEN 1 % m
    ELSE ((Pow2Mod(k \div 2, m) ^ 2) * (1 + (k % 2))) % m

\* the nearer of the two doubles about P / S, ties to the even mantissa:
\* rem / S of a last place is what P / S leaves above the lower one, whose
\* mantissa is odd or not
NearestDoubleFrom(S, e, rem, odd) ==
    IF 2 * rem < S \/ (2 * rem = S /\ ~odd)
    THEN [e |-> e, rho |-> -rem, odd |-> odd]
    ELSE [e |-> e, rho |-> S - rem, odd |-> ~odd]

\* NearestDoubleFrom for P / S of the exponent e
NearestDoubleAt(P, S, e) ==
    NearestDoubleFrom(S, e, ((P % S) * Pow2Mod(52 - e, S)) % S,
        ((P % (2 * S)) * Pow2Mod(52 - e, 2 * S)) % (2 * S) >= S)

\* NearestDoubleAt for P > 0
NearestDoubleAbove(P, S) ==
    NearestDoubleAt(P, S, IF P >= S THEN FloorLog2(P \div S)
                          ELSE BinadeBelow(P, S, 1))

\* the double d seen from the other side of 0
Negated(d) == [d EXCEPT !.rho = -d.rho]

\* the double nearest to the price P / S (S of at most 3 digits): its
\* exponent e, its distance rho from P / S in units of 1 / S of its last
\* place (2^(e - 52)), and whether its mantissa is odd.  The double of a
\* number below 0 is that of its amount, negated.
NearestDouble(P, S) ==
    IF P > 0 THEN NearestDoubleAbove(P, S)
    ELSE IF P = 0 THEN [e |-> 0, rho |-> 0, odd |-> FALSE]
    ELSE Negated(NearestDoubleAbove(-P, S))

\* ------------------------------------------------------------------------
\* Sums and quotients of doubles next to decimals
\* ------------------------------------------------------------------------
\* A double next to the decimal P / S (S even) is [P, S, rho, q]: its value
\* is (P + rho 2^q) / S, and q + 52 is the exponent of P / S or one less.

\* the double d, nearest to the decimal P / S, held next to it
DoubleFrom(P, S, d) == [P |-> P, S |-> S, rho |-> d.rho, q |-> d.e - 52]

\* the double of the decimal P / S
DoubleOf(P, S) == DoubleFrom(P, S, NearestDouble(P, S))

\* rho / 2^k as whole part, and fraction fn / 2^K (k <= K, 0 <= K)
ShiftedRight(rho, k, K) ==
    IF k < 0 THEN [fl |-> rho * Pow2(-k), fn |-> 0]
    ELSE [fl |-> rho \div Pow2(k), fn |-> (rho % Pow2(k)) * Pow2(K - k)]

\* the double nearest to P / S + T 2^(e - 52) / S for T = fl + fn / 2^K,
\* where the double nearest to P / S has the exponent e, lies rho / S of its
\* last place from it and has an odd mantissa or not: a sum midway between
\* two doubles goes to the even mantissa
RoundedAt(P, S, fl, fn, K, e, rho, odd) ==
    LET V   == fl - rho
        j   == (V + (S \div 2)) \div S
        tie == fn = 0 /\ (V + (S \div 2)) % S = 0
        jj  == IF tie /\ (odd = (j % 2 = 0)) THEN j - 1 ELSE j
    IN  [P |-> P, S |-> S, rho |-> rho + jj * S, q |-> e - 52]

\* P / S is a power of 2
IsPow2(P, S, e) == IF e >= 0 THEN P = S * Pow2(e) ELSE P * Pow2(-e) = S

\* T = fl + fn / 2^K leads from P / S towards 0
TowardsZero(P, fl, fn) ==
    IF P > 0 THEN fl < 0 ELSE fl > 0 \/ (fl = 0 /\ fn > 0)

\* RoundedAt for the double d nearest to P / S; from a power of 2 towards 0
\* the doubles lie twice as close
Rounded(P, S, fl, fn, K, d) ==
    IF d.rho = 0 /\ TowardsZero(P, fl, fn) /\ IsPow2(Abs(P), S, d.e)
    THEN RoundedAt(P, S, 2 * fl + ((2 * fn) \div Pow2(K)), (2 * fn) % Pow2(K),
                   K, d.e - 1, 0, FALSE)
    ELSE RoundedAt(P, S, fl, fn, K, d.e, d.rho, d.odd)

\* x + y in doubles (x.S = y.S), d the double nearest to the sum of the
\* decimals
DoubleSumAt(x, y, d, K) ==
    LET a  == ShiftedRight(x.rho, d.e - 52 - x.q, K)
        b  == ShiftedRight(y.rho, d.e - 52 - y.q, K)
    IN  Rounded(x.P + y.P, x.S, a.fl + b.fl + ((a.fn + b.fn) \div Pow2(K)),
                (a.fn + b.fn) % Pow2(K), K, d)

\* DoubleSumAt to as many binary places as the finer of x and y has
DoubleSumTo(x, y, d) ==
    DoubleSumAt(x, y, d,
                IF d.e - 52 < x.q /\ d.e - 52 < y.q THEN 0
                ELSE d.e - 52 - (IF x.q < y.q THEN x.q ELSE y.q))

\* x + y in doubles
DoubleSum(x, y) == DoubleSumTo(x, y, NearestDouble(x.P + y.P, x.S))

\* x / n in doubles, d the double nearest to the quotient of the decimal
DoubleOverAt(x, n, d) ==
    Rounded(x.P, x.S * n, x.rho * Pow2(x.q - (d.e - 52)), 0, 0, d)

\* x / n in doubles for a whole number n >= 1
DoubleOver(x, n) == DoubleOverAt(x, n, NearestDouble(x.P, x.S * n))

\* prices.reduce((sum, p) => sum + p, 0) from price i on, prices in steps of
\* 1 / S (a sum is of one denominator with its terms)
RECURSIVE DoubleSumFrom(_, _, _, _)
DoubleSumFrom(sum, prices, S, i) ==
    IF i > Len(prices) \/ sum.S # S THEN sum
    ELSE DoubleSumFrom(DoubleSum(sum, DoubleOf(prices[i], S)), prices, S, i + 1)

DoubleSumOf(prices, S) == DoubleSumFrom(DoubleOf(prices[1], S), prices, S, 2)

\* ------------------------------------------------------------------------
\* Sixteen-digit arithmetic
\* ------------------------------------------------------------------------
\* A number x >= 0 held to 1e-16 is the sequence <<q, f1, f2, f3, f4>> of its
\* whole part and four limbs of its fraction.

\* the limbs c, each of any size and sign, brought into 0..Limb-1
HiNorm(c) ==
    LET t4 == c[5]
        t3 == c[4] + (t4 \div Limb)
        t2 == c[3] + (t3 \div Limb)
        t1 == c[2] + (t2 \div Limb)
    IN  <<c[1] + (t1 \div Limb), t1 % Limb, t2 % Limb, t3 % Limb, t4 % Limb>>

HiZero == <<0, 0, 0, 0, 0>>
HiOne == <<1, 0, 0, 0, 0>>

HiAdd(a, b) == HiNorm([i \in 1..5 |-> a[i] + b[i]])

\* a - b for a >= b
HiSub(a, b) == HiNorm([i \in 1..5 |-> a[i] - b[i]])

\* a < b
HiLess(a, b) ==
    \E i \in 1..5 : a[i] < b[i] /\ \A j \in 1..(i - 1) : a[j] = b[j]

\* a * k for a whole number k (a[1] * k and Limb * k below 2^31)
HiTimes(a, k) == HiNorm([i \in 1..5 |-> a[i] * k])

\* a / d for a whole number d with Limb * d below 2^31, rounded
HiOver(a, d) ==
    LET r1 == a[1] % d
        c2 == r1 * Limb + a[2]
        c3 == (c2 % d) * Limb + a[3]
        c4 == (c3 % d) * Limb + a[4]
        c5 == (c4 % d) * Limb + a[5]
    IN  HiNorm(<<a[1] \div d, c2 \div d, c3 \div d, c4 \div d,
                 (c5 \div d) + (IF 2 * (c5 % d) >= d THEN 1 ELSE 0)>>)

\* a * b, rounded
HiMul(a, b) ==
    LET c5 == a[2] * b[5] + a[3] * b[4] + a[4] * b[3] + a[5] * b[2]
        c6 == a[3] * b[5] + a[4] * b[4] + a[5] * b[3]
    IN  HiNorm(<<a[1] * b[1],
                 a[1] * b[2] + a[2] * b[1],
                 a[1] * b[3] + a[2] * b[2] + a[3] * b[1],
                 a[1] * b[4] + a[2] * b[3] + a[3] * b[2] + a[4] * b[1],
                 a[1] * b[5] + a[2] * b[4] + a[3] * b[3] + a[4] * b[2]
                   + a[5] * b[1] + RDiv(c5 + RDiv(c6, Limb), Limb)>>)

\* n / d for whole numbers n >= 0 and 0 < d < 2^30
HiRatio(n, d) ==
    LET l1 == MulDiv(n % d, Limb, d)
        l2 == MulDiv(l1.r, Limb, d)
        l3 == MulDiv(l2.r, Limb, d)
        l4 == MulDiv(l3.r, Limb, d)
    IN  HiNorm(<<n \div d, l1.q, l2.q, l3.q,
                 l4.q + (IF 2 * l4.r >= d THEN 1 ELSE 0)>>)

\* k ln(2) for a whole number k of at most 4 digits:
\* ln(2) = 0.6931 4718 0559 9453 0941 723...
HiLn2Times(k) ==
    HiNorm(<<0, 6931 * k, 4718 * k, 559 * k,
             9453 * k + RDiv(941723 * k, 10000000)>>)

\* z^3/3 + z^5/5 + ... given the previous power pw, up to the power 25
RECURSIVE HiAtanhSeries(_, _, _, _)
HiAtanhSeries(sum, pw, z2, j) ==
    IF j > 25 \/ pw = HiZero THEN sum
    ELSE HiAtanhSeries(HiAdd(sum, HiOver(HiMul(pw, z2), j)), HiMul(pw, z2),
                       z2, j + 2)

\* 2 atanh(z) for 0 <= z < 0.2
HiAtanh2(z) == HiTimes(HiAtanhSeries(z, z, HiMul(z, z), 3), 2)

\* the K with 0.7 < a / (b 2^K) <= 1.4, from K on
RECURSIVE BinadeOfRatio(_, _, _)
BinadeOfRatio(a, b, K) ==
    IF 5 * a <= 7 * b * Pow2(K) THEN K ELSE BinadeOfRatio(a, b, K + 1)

\* ln(a / b) for whole numbers a >= b >= 1 below 10^7:
\* a / b = m 2^K and ln(m) = 2 atanh((m - 1) / (m + 1))
HiLnAt(a, B, K) ==
    IF a >= B THEN HiAdd(HiLn2Times(K), HiAtanh2(HiRatio(a - B, a + B)))
    ELSE HiSub(HiLn2Times(K), HiAtanh2(HiRatio(B - a, a + B)))

HiLn(a, b) == HiLnAt(a, b * Pow2(BinadeOfRatio(a, b, 0)), BinadeOfRatio(a, b, 0))

\* the terms r^j / j! from the one after `term` on, summed by parity of j:
\* <<sum of the even ones, sum of the odd ones>>
RECURSIVE HiExpSeries(_, _, _, _)
HiExpSeries(sums, term, r, j) ==
    IF j > 18 \/ term = HiZero THEN sums
    ELSE HiExpSeries(
             IF j % 2 = 0 THEN <<HiAdd(sums[1], HiOver(HiMul(term, r), j)), sums[2]>>
             ELSE <<sums[1], HiAdd(sums[2], HiOver(HiMul(term, r), j))>>,
             HiOver(HiMul(term, r), j), r, j + 1)

\* exp(-x) = m / 2^k for x >= 0, with 0.7 < m < 1.42: k is x / ln(2)
\* rounded and m = exp(-(x - k ln(2)))
HiExpAt(x, k) ==
    LET neg  == HiLess(x, HiLn2Times(k))
        r    == IF neg THEN HiSub(HiLn2Times(k), x) ELSE HiSub(x, HiLn2Times(k))
        sums == HiExpSeries(<<HiOne, HiZero>>, HiOne, r, 1)
    IN  [m |-> IF neg THEN HiAdd(sums[1], sums[2]) ELSE HiSub(sums[1], sums[2]),
         k |-> k]

HiExp(x) == HiExpAt(x, RDiv((x[1] * Limb + x[2]) * 100, 693147))

\* ------------------------------------------------------------------------
\* Listings
\* ------------------------------------------------------------------------
\* item.price is [numeric, pence]: numeric is FALSE for a value that Number()
\* turns into NaN.  item.sold is the sold text: str is FALSE for a missing,
\* empty or non-string value; dmy is TRUE when the text (after the "Sold "
\* prefix) matches  <day> <word> <year>,  the word in lower case;  nativeOk
\* and native are what new Date(text) gives (the engine's own parser): valid
\* or not, and its time.

Price(pence) == [numeric |-> TRUE, pence |-> pence]
BadPrice == [numeric |-> FALSE, pence |-> 0]

\* day 1 of the month (counted from 0) of the year, plus day - 1 days, in
\* days since the epoch (proleptic Gregorian calendar, UTC)
CivilDays(year, month, day) ==
    LET y   == IF month <= 1 THEN year - 1 ELSE year
        era == y \div 400
        yoe == y - era * 400
        mp  == (month + 10) % 12
        doy == (153 * mp + 2) \div 5 + day - 1
        doe == yoe * 365 + yoe \div 4 - yoe \div 100 + doy
    IN  era * 146097 + doe - 719468

\* the same in hours since the epoch
CivilHours(year, month, day) == CivilDays(year, month, day) * HoursPerDay

\* A Date holds a time of at most 8.64e15 ms, 100 000 000 days, from the
\* epoch; a time beyond makes an Invalid Date.  The last day is in the year
\* 275760, and the days of no later year are counted.  A time zone named in
\* the text moves the time by zone hours to the west.
MaxTimeDays == 100000000
LastYear == 275760

InTimeRange(year, month, day, zone) ==
    /\ year <= LastYear
    /\ \/ CivilDays(year, month, day) < MaxTimeDays
       \/ CivilDays(year, month, day) = MaxTimeDays /\ zone >= 0

\* ---- new Date(text): the legacy parser of the engine (V8) ----
\* The text after the "Sold " prefix that the pattern  <day> <word> <year>
\* matches is  d sep1 word sep2 y:  d of one or two digits, word of letters,
\* digits and "_" (\w+), y of four digits, each separator a run of white
\* space (\s+).  In the model a separator is a string of " " (white space
\* that the engine skips) and "|" (a line separator U+2028 or U+2029, which
\* \s matches and the engine reads as part of a word).

\* the month names of the engine's parser: a word names a month by its
\* first three letters, whatever follows them
engineMonths == [jan |-> 0, feb |-> 1, mar |-> 2, apr |-> 3, may |-> 4,
                 jun |-> 5, jul |-> 6, aug |-> 7, sep |-> 8, oct |-> 9,
                 nov |-> 10, dec |-> 11]

\* its time-zone names, in hours east of Greenwich: a word of at most three
\* letters
engineZones == [ut |-> 0, utc |-> 0, z |-> 0, gmt |-> 0, cdt |-> -5,
                cst |-> -6, edt |-> -4, est |-> -5, mdt |-> -6, mst |-> -7,
                pdt |-> -7, pst |-> -8]

DigitChars == <<"0", "1", "2", "3", "4", "5", "6", "7", "8", "9">>

IsDigitChar(c) == \E k \in 1..10 : DigitChars[k] = c

DigitValue(c) == (CHOOSE k \in 1..10 : DigitChars[k] = c) - 1

\* a character of a word: at or above "A" and no white space
IsWordChar(c) == c # " " /\ ~IsDigitChar(c)

\* the last index of the run of digits (or of word characters) of s that
\* starts at i
RECURSIVE RunEnd(_, _, _)
RunEnd(s, i, digits) ==
    IF i < Len(s) /\ (IsDigitChar(SubSeq(s, i + 1, i + 1)) = digits)
                  /\ (digits \/ IsWordChar(SubSeq(s, i + 1, i + 1)))
    THEN RunEnd(s, i + 1, digits) ELSE i

\* the number a run of digits s[i..j] reads as: leading zeros are skipped and
\* nine digits are read
RECURSIVE NumeralFrom(_, _, _, _, _)
NumeralFrom(s, i, j, n, read) ==
    IF i > j THEN n
    ELSE IF read = 0 /\ SubSeq(s, i, i) = "0" THEN NumeralFrom(s, i + 1, j, n, read)
    ELSE IF read >= 9 THEN n
    ELSE NumeralFrom(s, i + 1, j, 10 * n + DigitValue(SubSeq(s, i, i)), read + 1)

\* the parser's composers: the numbers read for the day (at most three), the
\* month named (-1: none), the time zone named, and whether the text is
\* still legal
EngineStart == [nums |-> <<>>, month |-> -1, zoned |-> FALSE, zone |-> 0,
                ok |-> TRUE]

\* day.Add(n): a fourth number is illegal
EngineNumber(st, n) ==
    IF Len(st.nums) >= 3 THEN [st EXCEPT !.ok = FALSE]
    ELSE [st EXCEPT !.nums = Append(@, n)]

\* a word after a number: a month name of any length, a time-zone name of
\* at most three characters; any other word is illegal
EngineWord(st, w) ==
    IF Len(w) >= 3 /\ SubSeq(w, 1, 3) \in DOMAIN engineMonths
    THEN [st EXCEPT !.month = engineMonths[SubSeq(w, 1, 3)]]
    ELSE IF Len(w) <= 3 /\ w \in DOMAIN engineZones
    THEN [st EXCEPT !.zoned = TRUE, !.zone = engineZones[w]]
    ELSE [st EXCEPT !.ok = FALSE]

\* the tokens of s from index i on
RECURSIVE EngineScan(_, _, _)
EngineScan(s, i, st) ==
    IF i > Len(s) \/ ~st.ok THEN st
    ELSE IF SubSeq(s, i, i) = " " THEN EngineScan(s, i + 1, st)
    ELSE IF IsDigitChar(SubSeq(s, i, i))
    THEN EngineScan(s, RunEnd(s, i, TRUE) + 1,
                    EngineNumber(st, NumeralFrom(s, i, RunEnd(s, i, TRUE), 0, 0)))
    ELSE EngineScan(s, RunEnd(s, i, FALSE) + 1,
                    EngineWord(st, SubSeq(s, i, RunEnd(s, i, FALSE))))

\* the day composed of the numbers read (missing ones are 1): without a
\* month name the numbers are month, day, year, or year, month, day when the
\* first is no day of a month; with a month name they are day, year, or
\* year, day; years 0..49 are 2000..2049 and years 50..99 are 1950..1999;
\* the month must be one of 1..12 and the day one of 1..31.  A time zone
\* named moves the time by its offset.  A time out of the range of a Date
\* is an Invalid Date, which parseSoldDate does not return.
EngineDay(st) ==
    LET c     == st.nums \o <<1, 1, 1>>
        isDay == c[1] >= 1 /\ c[1] <= 31
        yr    == IF st.month < 0 THEN (IF isDay THEN c[3] ELSE c[1])
                 ELSE (IF isDay THEN c[2] ELSE c[1])
        month == IF st.month >= 0 THEN st.month + 1
                 ELSE (IF isDay THEN c[1] ELSE c[2])
        day   == IF st.month < 0 THEN (IF isDay THEN c[2] ELSE c[3])
                 ELSE (IF isDay THEN c[1] ELSE c[2])
        year  == IF yr <= 49 THEN 2000 + yr
                 ELSE IF yr <= 99 THEN 1900 + yr ELSE yr
    IN  IF st.ok /\ st.nums # <<>> /\ month >= 1 /\ month <= 12
                 /\ day >= 1 /\ day <= 31
                 /\ InTimeRange(year, month - 1, day, st.zone)
        THEN [ok |-> TRUE, t |-> CivilHours(year, month - 1, day) - st.zone]
        ELSE [ok |-> FALSE, t |-> 0]

\* new Date("d sep1 word sep2 y") in a UTC locale
EngineDate(d, sep1, word, sep2, y) ==
    EngineDay(EngineNumber(EngineScan(sep1 \o word \o sep2, 1,
                                      EngineNumber(EngineStart, d)), y))

NoSold == [str |-> FALSE, dmy |-> FALSE, day |-> 0, month |-> "", year |-> 0,
           nativeOk |-> FALSE, native |-> 0]

\* the sold text "Sold d sep1 word sep2 y" for natural numbers d and y, the
\* word in lower case and y written with four digits or, from 10000 on,
\* with its own: the pattern matches a d of at most two digits and a y of
\* four
SoldText(d, sep1, m, sep2, y) ==
    [str |-> TRUE, dmy |-> d <= 99 /\ y <= 9999,
     day |-> d, month |-> m, year |-> y,
     nativeOk |-> EngineDate(d, sep1, m, sep2, y).ok,
     native |-> EngineDate(d, sep1, m, sep2, y).t]

\* the sold text "Sold d m y"
SoldDmy(d, m, y) == SoldText(d, " ", m, " ", y)

\* a sold text that the pattern does not match
SoldOther(ok, t) == [str |-> TRUE, dmy |-> FALSE, day |-> 0, month |-> "", year |-> 0,
                     nativeOk |-> ok, native |-> t]

Listing(price, sold) == [price |-> price, sold |-> sold]

\* Number(item.price)
NumberOf(raw) == [nan |-> ~raw.numeric, val |-> raw.pence]

\* !isNaN(p) && p > 0
IsValidPrice(p) == ~p.nan /\ p.val > 0

\* ------------------------------------------------------------------------
\* parseSoldDate
\* ------------------------------------------------------------------------
months == [jan |-> 0, january |-> 0, feb |-> 1, february |-> 1,
           mar |-> 2, march |-> 2, apr |-> 3, april |-> 3, may |-> 4,
           jun |-> 5, june |-> 5, jul |-> 6, july |-> 6,
           aug |-> 7, august |-> 7, sep |-> 8, september |-> 8,
           oct |-> 9, october |-> 9, nov |-> 10, november |-> 10,
           dec |-> 11, december |-> 11]

\* new Date(year, month, day).getTime() in hours, month counted from 0; a day
\* beyond the month's end runs into the next month, and a year of 0..99 is
\* the year 1900 + year, as in JavaScript
FullYear(year) == IF year >= 0 /\ year <= 99 THEN 1900 + year ELSE year

DateHours(year, month, day) == CivilHours(FullYear(year), month, day)

\* the names that months[monthName] finds although the object literal does
\* not list them: they are inherited from Object.prototype, and what is
\* found is no number
inheritedMonths == {"constructor", "__proto__"}

\* a Date is [ok, nan, t]: ok is FALSE for null, nan is TRUE for an Invalid
\* Date (getTime() is NaN)
NoDate == [ok |-> FALSE, nan |-> FALSE, t |-> 0]
DateAtHours(t) == [ok |-> TRUE, nan |-> FALSE, t |-> t]
InvalidDate == [ok |-> TRUE, nan |-> TRUE, t |-> 0]

\* new Date(year, month, day): an Invalid Date when the time is out of range
DateOf(year, month, day) ==
    IF InTimeRange(FullYear(year), month, day, 0)
    THEN DateAtHours(DateHours(year, month, day))
    ELSE InvalidDate

parseSoldDate(sold) ==
    IF ~sold.str THEN NoDate
    ELSE IF sold.dmy /\ sold.month \in DOMAIN months
                     /\ sold.day >= 1 /\ sold.day <= 31
         THEN DateOf(sold.year, months[sold.month], sold.day)
    ELSE IF sold.dmy /\ sold.month \in inheritedMonths
                     /\ sold.day >= 1 /\ sold.day <= 31
         THEN InvalidDate
    ELSE IF sold.nativeOk THEN DateAtHours(sold.native)
    ELSE NoDate

\* ------------------------------------------------------------------------
\* Sequence helpers (Array.prototype.map / filter / sort / reduce)
\* ------------------------------------------------------------------------
RECURSIVE SumSeq(_)
SumSeq(s) == IF s = <<>> THEN 0 ELSE Head(s) + SumSeq(Tail(s))

\* insert x behind every element that is not greater: a stable insertion
RECURSIVE InsertNum(_, _)
InsertNum(x, s) ==
    IF s = <<>> THEN <<x>>
    ELSE IF x < Head(s) THEN <<x>> \o s
    ELSE <<Head(s)>> \o InsertNum(x, Tail(s))

\* [...arr].sort((a, b) => a - b)
RECURSIVE SortNum(_)
SortNum(s) ==
    IF s = <<>> THEN <<>>
    ELSE InsertNum(s[Len(s)], SortNum(SubSeq(s, 1, Len(s) - 1)))

\* listings in ascending order of pence (of the raw price), stable
RECURSIVE InsertByPrice(_, _)
InsertByPrice(x, s) ==
    IF s = <<>> THEN <<x>>
    ELSE IF x.price.pence < Head(s).price.pence THEN <<x>> \o s
    ELSE <<Head(s)>> \o InsertByPrice(x, Tail(s))

RECURSIVE SortByPrice(_)
SortByPrice(s) ==
    IF s = <<>> THEN <<>>
    ELSE InsertByPrice(s[Len(s)], SortByPrice(SubSeq(s, 1, Len(s) - 1)))

\* MiddlePair taking the upper of the two middle elements of an even count
MiddlePairUpper(sorted) ==
    <<sorted[(Len(sorted) \div 2) + 1], sorted[(Len(sorted) \div 2) + 1]>>

\* sorted[mid - 1] and sorted[mid] of an ascending sequence of even length;
\* for an odd length sorted[mid] twice, whose mean is sorted[mid] itself
MiddlePair(sorted) ==
    LET mid == Len(sorted) \div 2
    IN  IF Len(sorted) % 2 = 0 THEN <<sorted[mid], sorted[mid + 1]>>
        ELSE <<sorted[mid + 1], sorted[mid + 1]>>

\* ------------------------------------------------------------------------
\* calculateIntelligentAverage
\* ------------------------------------------------------------------------
\* An estimate is null or a number: the whole number of price steps nearest
\* to the double, and `under` where the double lies below that number; or it
\* is NaN (nan) or Infinity (inf).  gap tells how far below the number the
\* double lies: "last" for the double next below it, "far" for one further
\* below, "near" where the rounding of Math.log and Math.exp leaves open
\* which of the two it is, "none" where the double is not below.
NullEst == [null |-> TRUE, pence |-> 0, under |-> FALSE, nan |-> FALSE,
            inf |-> FALSE, gap |-> "none"]
Num(v) == [null |-> FALSE, pence |-> v, under |-> FALSE, nan |-> FALSE,
           inf |-> FALSE, gap |-> "none"]
NumUnder(v) == [null |-> FALSE, pence |-> v, under |-> TRUE, nan |-> FALSE,
                inf |-> FALSE, gap |-> "far"]
NumLast(v) == [NumUnder(v) EXCEPT !.gap = "last"]
NumNear(v) == [NumUnder(v) EXCEPT !.gap = "near"]
NaNEst == [null |-> FALSE, pence |-> 0, under |-> FALSE, nan |-> TRUE,
           inf |-> FALSE, gap |-> "none"]
InfinityEst == [null |-> FALSE, pence |-> 0, under |-> FALSE, nan |-> FALSE,
                inf |-> TRUE, gap |-> "none"]

\* the number q + r / w (0 <= r < w) as an estimate
Quotient(q, r, w) ==
    IF r > 0 /\ 2 * r >= w THEN NumUnder(q + 1) ELSE Num(q)

\* q + r / w steps of 1 / S pence worked out in doubles from exact terms:
\* midway between two steps the double lies on the side the double nearest
\* to (2 q + 1) / (2 S) lies on
ExactQuotient(q, r, w, S) ==
    IF 2 * r = w /\ NearestDouble(2 * q + 1, 2 * S).rho < 0 THEN Num(q)
    ELSE Quotient(q, r, w)

\* the double x below the double d nearest to its decimal, as an estimate
\* of v steps: the double next below d lies one last place (x.S units of
\* rho) from it
BelowDouble(x, d, v) ==
    IF x.rho = d.rho - x.S THEN NumLast(v) ELSE NumUnder(v)

\* the double x = sum / n of n prices as an estimate: a mean of a whole
\* number of steps is under where the double lies below the double of that
\* number, a mean midway between two steps goes by the side of the double
EstimateOf(x, n) ==
    IF x.P % n = 0
    THEN (IF x.rho < NearestDouble(x.P, x.S).rho
          THEN BelowDouble(x, NearestDouble(x.P, x.S), x.P \div n)
          ELSE Num(x.P \div n))
    ELSE IF 2 * (x.P % n) = n
    THEN (IF x.rho < 0 THEN Num(x.P \div n) ELSE NumUnder((x.P \div n) + 1))
    ELSE Quotient(x.P \div n, x.P % n, n)

\* validListings.reduce((s, item) => s + item.price, 0) / n, prices in steps
\* of 1 / S
SimpleAverage(prices, S) ==
    EstimateOf(DoubleOver(DoubleSumOf(prices, S), Len(prices)), Len(prices))

NullEntry == [null |-> TRUE, price |-> 0, date |-> 0, nan |-> FALSE]

\* listings.map(...).filter(item => item !== null): the listings with a valid
\* price and a sold date that is not null, as {price, date}, in the input's
\* order; nan tells that date.getTime() is NaN
ValidDated(listings) ==
    LET mapped == [i \in 1..Len(listings) |->
                    LET price    == NumberOf(listings[i].price)
                        soldDate == parseSoldDate(listings[i].sold)
                    IN  IF price.nan \/ price.val <= 0 \/ ~soldDate.ok
                        THEN NullEntry
                        ELSE [null |-> FALSE, price |-> price.val,
                              date |-> soldDate.t, nan |-> soldDate.nan]]
        NotNull(e) == ~e.null
    IN  SelectSeq(mapped, NotNull)

\* the comparator (a, b) => a.date.getTime() - b.date.getTime() as the sort
\* reads it: a NaN counts as 0
DateOrder(a, b) == IF a.nan \/ b.nan THEN 0 ELSE a.date - b.date

\* the end of the run s starts with, s[1..i-1] being in it: strictly
\* descending, or else not descending
RECURSIVE RunEndByDate(_, _, _)
RunEndByDate(s, i, descending) ==
    IF i > Len(s) THEN i - 1
    ELSE IF descending = (DateOrder(s[i], s[i - 1]) < 0)
    THEN RunEndByDate(s, i + 1, descending)
    ELSE i - 1

Reversed(s) == [i \in 1..Len(s) |-> s[Len(s) + 1 - i]]

\* the binary search for the place of pivot in s[left+1..right]
RECURSIVE InsertionPoint(_, _, _, _)
InsertionPoint(s, pivot, left, right) ==
    IF left >= right THEN left
    ELSE IF DateOrder(pivot, s[left + ((right - left) \div 2) + 1]) < 0
    THEN InsertionPoint(s, pivot, left, left + ((right - left) \div 2))
    ELSE InsertionPoint(s, pivot, left + ((right - left) \div 2) + 1, right)

\* the elements from start on inserted one by one into the sorted s[1..start-1]
RECURSIVE BinaryInsertionSort(_, _)
BinaryInsertionSort(s, start) ==
    IF start > Len(s) THEN s
    ELSE LET left == InsertionPoint(s, s[start], 0, start - 1)
         IN  BinaryInsertionSort(
                 SubSeq(s, 1, left) \o <<s[start]>>
                   \o SubSeq(s, left + 1, start - 1)
                   \o SubSeq(s, start + 1, Len(s)),
                 start + 1)

\* arr.sort((a, b) => a.date.getTime() - b.date.getTime()) as the engine
\* sorts an array shorter than 64: the run the array starts with is kept (a
\* descending one reversed) and the other elements are inserted by binary
\* search.  Dates that are numbers come out ascending, equal ones in the
\* order they had.
SortByDate(s) ==
    IF Len(s) < 2 THEN s
    ELSE LET descending == DateOrder(s[2], s[1]) < 0
             run        == RunEndByDate(s, 3, descending)
         IN  BinaryInsertionSort(
                 IF descending
                 THEN Reversed(SubSeq(s, 1, run)) \o SubSeq(s, run + 1, Len(s))
                 ELSE s,
                 run + 1)

\* MIN_DT_DAYS = 0.25 = 1 / MIN_DT_DAYS_INV
MIN_DT_DAYS_INV == 4

\* the time delta of the pair (i - 1, i) exceeds MIN_DT_DAYS:
\* dt > MIN_DT_DAYS with dt = hours / 24; a NaN exceeds nothing
DtAboveMin(sorted, i) ==
    /\ ~sorted[i].nan /\ ~sorted[i - 1].nan
    /\ (sorted[i].date - sorted[i - 1].date) * MIN_DT_DAYS_INV > HoursPerDay

\* the loop over i = from..n-1 that fills logPriceDiffs, for the pairs whose
\* dt exceeds MIN_DT_DAYS: logDiff / dt is held as the pair of logDiff =
\* |log p_i - log p_(i-1)| (dl, in units of 1/LogScale; it is the log of
\* a / b for the prices a >= b of the pair) and dt (in hours)
RECURSIVE LogPriceDiffs(_, _)
LogPriceDiffs(sorted, i) ==
    IF i > Len(sorted) THEN <<>>
    ELSE (IF DtAboveMin(sorted, i)
          THEN <<[dl |-> Abs(Ln(sorted[i].price) - Ln(sorted[i - 1].price)),
                  dt |-> sorted[i].date - sorted[i - 1].date,
                  a  |-> IF sorted[i].price > sorted[i - 1].price
                         THEN sorted[i].price ELSE sorted[i - 1].price,
                  b  |-> IF sorted[i].price > sorted[i - 1].price
                         THEN sorted[i - 1].price ELSE sorted[i].price]>>
          ELSE <<>>) \o LogPriceDiffs(sorted, i + 1)

\* x + m < y for numbers in two limbs, m below LogScale
BigLessBy(x, y, m) ==
    IF y.qh - x.qh > 1 THEN TRUE
    ELSE IF y.qh - x.qh < -1 THEN FALSE
    ELSE (y.qh - x.qh) * LogScale + (y.ql - x.ql) > m

\* a.dl / a.dt < b.dl / b.dt in sixteen digits; rates that differ by less
\* than the rounding of the logarithms count as equal
HiRateLess(a, b) ==
    HiLess(HiAdd(HiTimes(HiLn(a.a, a.b), b.dt), <<0, 0, 0, 0, 8 * (a.dt + b.dt)>>),
           HiTimes(HiLn(b.a, b.b), a.dt))

\* a.dl / a.dt < b.dl / b.dt, by the logarithms in units of 1/LogScale where
\* they tell
RateLess(a, b) ==
    LET x == MulDivBig(a.dl, b.dt, 1)
        y == MulDivBig(b.dl, a.dt, 1)
    IN  IF BigLessBy(x, y, 8 * (a.dt + b.dt)) THEN TRUE
        ELSE IF BigLessBy(y, x, 8 * (a.dt + b.dt)) THEN FALSE
        ELSE HiRateLess(a, b)

RECURSIVE InsertRate(_, _)
InsertRate(x, s) ==
    IF s = <<>> THEN <<x>>
    ELSE IF RateLess(x, Head(s)) THEN <<x>> \o s
    ELSE <<Head(s)>> \o InsertRate(x, Tail(s))

\* [...logPriceDiffs].sort((a, b) => a - b)
RECURSIVE SortRates(_)
SortRates(s) ==
    IF s = <<>> THEN <<>>
    ELSE InsertRate(s[Len(s)], SortRates(SubSeq(s, 1, Len(s) - 1)))

\* v, the median of sortedInstability, as its two middle elements:
\* v = (lo + hi) / 2, and lo = hi for an odd count
MedianRate(sortedInstability) ==
    LET mid == Len(sortedInstability) \div 2
    IN  [lo |-> IF Len(sortedInstability) % 2 = 0 THEN sortedInstability[mid]
                ELSE sortedInstability[mid + 1],
         hi |-> sortedInstability[mid + 1]]

\* rate * t for a time t in hours (the hours of dt and of t cancel), as a
\* number q + f / LogScale
RateTimes(rate, t) ==
    LET m == MulDivBig(rate.dl, Abs(t), rate.dt)
    IN  IF t >= 0 \/ (m.qh = 0 /\ m.ql = 0) THEN [q |-> m.qh, f |-> m.ql]
        ELSE IF m.ql = 0 THEN [q |-> -m.qh, f |-> 0]
        ELSE [q |-> -m.qh - 1, f |-> LogScale - m.ql]

\* v * daysSinceSale
Decay(v, t) == HalfSum(RateTimes(v.lo, t), RateTimes(v.hi, t))

\* the logarithms of the two middle rates in sixteen digits
HiLogs(v) == <<HiLn(v.lo.a, v.lo.b), HiLn(v.hi.a, v.hi.b)>>

\* v * t in sixteen digits for a time of t >= 0 hours, given HiLogs(v)
HiDecay(logs, v, t) ==
    HiOver(HiAdd(HiOver(HiTimes(logs[1], t), v.lo.dt),
                 HiOver(HiTimes(logs[2], t), v.hi.dt)), 2)

RECURSIVE LeastFrom(_, _, _)
LeastFrom(least, x, i) ==
    IF i > Len(x) THEN least
    ELSE LeastFrom(IF FixedLess(x[i], least) THEN x[i] ELSE least, x, i + 1)

\* 1074: 2^-1074 is the step of the subnormal doubles, and
\* 1074 ln(2): Math.exp(-x) is exp(SubnormalAt - x) steps
SubnormalExp == 1074
SubnormalAt == [q |-> 744, f |-> 44007192]

\* 1050 ln(2): from here on Math.exp(-x) is below 2^24 units of 2^-1074
FewUnitsAt == [q |-> 727, f |-> 80453959]

\* 1022 ln(2) = 708.39...: from 708 on Math.exp(-x) may be a subnormal
\* double, held to a unit of 2^-1074
CoarseAt == 708

\* m / 2^k in units of 2^-1074, in sixteen digits, for a result below 2^25
HiUnits(e) ==
    IF SubnormalExp - e.k < -1 THEN HiZero
    ELSE IF SubnormalExp - e.k = -1 THEN HiOver(e.m, 2)
    ELSE IF SubnormalExp - e.k <= 12 THEN HiTimes(e.m, Pow2(SubnormalExp - e.k))
    ELSE HiTimes(HiTimes(e.m, Pow2(12)), Pow2(SubnormalExp - e.k - 12))

\* the whole number of units nearest to u.  The exponent v * daysSinceSale
\* carries the rounding of Math.log, of the quotient and of the product,
\* about amp / 2 + 40 units of 1e-14: where u is midway between two whole
\* numbers as far as that tells, the double is the upper one (tieUp) or the
\* lower one.
RoundedUnits(u, amp, tieUp) ==
    LET window == 2 + (((u[1] \div 1000) + 1) * (40 + (amp \div 2))) \div 1000
        F      == u[2] * Limb + u[3]
    IN  IF F > (LogScale \div 2) + window THEN u[1] + 1
        ELSE IF F + window < (LogScale \div 2) THEN u[1]
        ELSE IF tieUp THEN u[1] + 1 ELSE u[1]

\* Math.exp(-x) in units of 2^-1074 for x >= FewUnitsAt, the exponent of a
\* sale t hours ago: 0 from well below half a unit on
UnitWeight(x, logs, v, t, tieUp) ==
    IF x.q > SubnormalAt.q + 1 THEN 0
    ELSE RoundedUnits(HiUnits(HiExp(HiDecay(logs, v, t))),
                      t \div (IF v.lo.dt < v.hi.dt THEN v.lo.dt ELSE v.hi.dt),
                      tieUp)

\* weights are held in units of 1e-7 of the largest weight
WeightScale == LogScale \div 10

RelativeWeightOf(e) ==
    IF -e.k > 26 THEN 0
    ELSE RDiv(e.m, (LogScale \div WeightScale) * Pow2(-e.k))

\* Math.exp(-x) / Math.exp(-least) in units of 1/WeightScale
RelativeWeight(x, least) ==
    IF x.q - least.q > 20 THEN 0
    ELSE RelativeWeightOf(ExpParts(-((x.q - least.q) * LogScale
                                       + (x.f - least.f))))

\* the weights for the exponents x: in units of 2^-1074 where the doubles
\* are subnormal numbers of few units, else relative to the largest of them
\* (weightedSum / weightSum does not change by a common factor)
WeightsOf(sorted, v, now, x, least, tieUp) ==
    IF ~FixedLess(least, FewUnitsAt)
    THEN [subnormal |-> TRUE, least |-> least.q, top |-> least,
          w |-> [i \in 1..Len(x) |->
                    UnitWeight(x[i], HiLogs(v), v, now - sorted[i].date, tieUp)]]
    ELSE [subnormal |-> FALSE, least |-> least.q, top |-> least,
          w |-> [i \in 1..Len(x) |-> RelativeWeight(x[i], least)]]

WeightsAt(sorted, v, now, x, tieUp) ==
    WeightsOf(sorted, v, now, x, LeastFrom(x[1], x, 2), tieUp)

\* the weights w_i = Math.exp(-v * daysSinceSale_i) at the clock `now`: least
\* and top are the least of the exponents v * daysSinceSale_i, that of the
\* largest weight, which is below 0 for a clock before the sale; with v = 0
\* every weight is Math.exp(-0) = 1
Weights(sorted, v, now, tieUp) ==
    IF v.hi.dl = 0
    THEN [subnormal |-> FALSE, least |-> 0, top |-> [q |-> 0, f |-> 0],
          w |-> [i \in 1..Len(sorted) |-> WeightScale]]
    ELSE WeightsAt(sorted, v, now,
                   [i \in 1..Len(sorted) |-> Decay(v, now - sorted[i].date)],
                   tieUp)

\* what the double of item.price * weights[i] differs from the product of
\* the price P / S and u units, in units of 1 / S: the product is rounded to
\* whole units, a product midway between two to the side the double of the
\* price lies on
ProductRounding(P, u, S) ==
    LET rem == ((P % S) * (u % S)) % S
        odd == ((P % (2 * S)) * (u % (2 * S))) % (2 * S) >= S
        rho == NearestDouble(P, S).rho
    IN  IF 2 * rem > S \/ (2 * rem = S /\ IF rho = 0 THEN odd ELSE rho > 0)
        THEN S - rem
        ELSE -rem

\* q and r of a + b for quotients and remainders by W
AddQuotients(a, b, W) ==
    [q |-> a.q + b.q + (IF a.r + b.r >= W THEN 1 ELSE 0),
     r |-> (a.r + b.r) % W]

\* weightedSum += item.price * weights[i] from item i on, as quotient and
\* remainder by W (the quotient stays below 2^30)
RECURSIVE WeightedSumFrom(_, _, _, _, _)
WeightedSumFrom(weightedSum, prices, w, W, i) ==
    IF i > Len(prices) \/ weightedSum.q >= Pow2(30) THEN weightedSum
    ELSE WeightedSumFrom(
             AddQuotients(weightedSum, MulDiv(prices[i], w[i], W), W),
             prices, w, W, i + 1)

WeightedSum(prices, w, W) ==
    WeightedSumFrom([q |-> 0, r |-> 0], prices, w, W, 1)

\* weightedSum / weightSum for weights of whole units of 2^-1074: the
\* products are rounded to whole units (c units of 1 / S in all), the sums
\* are exact
UnitQuotient(sum, c, W, S) ==
    ExactQuotient(sum.q + ((sum.r + c) \div W), (sum.r + c) % W, W, S)

\* weightSum > 0 ? weightedSum / weightSum : null
UnitAverage(prices, w, weightSum, S) ==
    IF weightSum > 0
    THEN UnitQuotient(WeightedSum(prices, w, weightSum),
                      SumSeq([i \in 1..Len(prices) |->
                                 ProductRounding(prices[i], w[i], S)]),
                      weightSum, S)
    ELSE NullEst

\* m / 2^k in sixteen digits
RECURSIVE HiHalved(_, _)
HiHalved(m, k) ==
    IF k <= 0 \/ m = HiZero THEN m
    ELSE HiHalved(HiOver(m, Pow2(IF k < 15 THEN k ELSE 15)), k - 15)

HiPowerOf(e) == HiHalved(e.m, e.k)

\* Math.exp(-d) in sixteen digits for d >= 0
HiWeight(d) == IF d[1] > 40 THEN HiZero ELSE HiPowerOf(HiExp(d))

\* a * c for a whole number c >= 0 below 2 * 10^8 (a below 10)
HiScale(a, c) ==
    HiAdd(HiTimes(HiTimes(a, c \div Limb), Limb), HiTimes(a, c % Limb))

\* the sums over the listings from i on of (2 p_i - h) w_i, apart for the
\* positive terms (pos) and the negative ones (neg), of 2 p_i w_i (all) and
\* of |2 p_i - h| (span)
RECURSIVE HalfStepSums(_, _, _, _, _)
HalfStepSums(acc, prices, hw, h, i) ==
    IF i > Len(prices) \/ acc.span < 0 THEN acc
    ELSE HalfStepSums(
             [pos  |-> IF 2 * prices[i] > h
                       THEN HiAdd(acc.pos, HiScale(hw[i], 2 * prices[i] - h))
                       ELSE acc.pos,
              neg  |-> IF 2 * prices[i] < h
                       THEN HiAdd(acc.neg, HiScale(hw[i], h - 2 * prices[i]))
                       ELSE acc.neg,
              all  |-> HiAdd(acc.all, HiScale(hw[i], 2 * prices[i])),
              span |-> acc.span + Abs(2 * prices[i] - h)],
             prices, hw, h, i + 1)

\* how far the doubles may put (pos - neg) from where the sums s put it: the
\* weights carry the rounding of their exponents (ek units of 1e-16 of
\* themselves) and, where they may be subnormal (coarse), half a unit of
\* 2^-1074, at most 3e-8 of the largest; each of the n products and sums is
\* rounded
Slack(s, ek, n, coarse, S) ==
    HiAdd(HiAdd(HiScale(HiNorm(<<0, 0, 0, 0, HiAdd(s.pos, s.neg)[1] + 1>>), ek),
                HiScale(HiNorm(<<0, 0, 0, 0, s.all[1] + 1>>), 2 * n + 4)),
          HiAdd(HiNorm(<<0, 0, 0, 0, 4 * s.span>>),
                IF coarse THEN HiNorm(<<0, 0, 3 * (s.span + 2 * S * n * n), 0, 0>>)
                ELSE HiZero))

\* weightedSum / weightSum >= h / 2 as the doubles have it, given the sums;
\* where the two are as good as equal, as the rounding falls (tieUp)
AtLeastOf(s, slack, tieUp) ==
    IF HiLess(HiAdd(s.neg, slack), s.pos) THEN TRUE
    ELSE IF HiLess(HiAdd(s.pos, slack), s.neg) THEN FALSE
    ELSE tieUp

AtLeastBy(s, k) == AtLeastOf(s, Slack(s, k.ek, Len(k.prices), k.coarse, k.S), k.tieUp)

\* weightedSum / weightSum >= h / 2 for the prices, weights and rounding of k
AtLeast(k, h) ==
    AtLeastBy(HalfStepSums([pos |-> HiZero, neg |-> HiZero, all |-> HiZero,
                            span |-> 0], k.prices, k.hw, h, 1), k)

\* the largest h with weightedSum / weightSum >= h / 2, from an h that holds
\* upwards, or from any h downwards
RECURSIVE HalfStepUp(_, _)
HalfStepUp(k, h) == IF AtLeast(k, h + 1) THEN HalfStepUp(k, h + 1) ELSE h

RECURSIVE HalfStepDown(_, _)
HalfStepDown(k, h) == IF AtLeast(k, h) THEN h ELSE HalfStepDown(k, h - 1)

HalfStep(k, h) ==
    IF AtLeast(k, h + 1) THEN HalfStepUp(k, h + 1) ELSE HalfStepDown(k, h)

\* weightedSum / weightSum is as good as h / 2, given the sums: within twice
\* what the doubles may put it off
NearOf(s, slack) ==
    /\ ~HiLess(HiAdd(s.pos, HiAdd(slack, slack)), s.neg)
    /\ ~HiLess(HiAdd(s.neg, HiAdd(slack, slack)), s.pos)

Near(k, h) ==
    LET s == HalfStepSums([pos |-> HiZero, neg |-> HiZero, all |-> HiZero,
                           span |-> 0], k.prices, k.hw, h, 1)
    IN  NearOf(s, Slack(s, k.ek, Len(k.prices), k.coarse, k.S))

\* the estimate that is h / 2 steps or more and less than (h + 1) / 2
HalfStepEstimate(k, h) ==
    IF h % 2 = 0 THEN Num(h \div 2)
    ELSE IF Near(k, h + 1) THEN NumNear((h + 1) \div 2)
    ELSE NumUnder((h + 1) \div 2)

HalfStepEstimateOf(k, h) == HalfStepEstimate(k, HalfStep(k, h))

\* weightedSum / weightSum in sixteen digits, near q + r / W steps
FineAverage(sorted, prices, v, sum, W, ek, coarse, S, tieUp) ==
    HalfStepEstimateOf(
        [prices |-> prices,
         hw |-> [i \in 1..Len(sorted) |->
                    HiWeight(HiDecay(HiLogs(v), v,
                                     sorted[Len(sorted)].date - sorted[i].date))],
         ek |-> ek, coarse |-> coarse, S |-> S, tieUp |-> tieUp],
        2 * sum.q + (IF 2 * sum.r >= W THEN 1 ELSE 0))

\* how far r may be off for weights in units of 1/WeightScale whose
\* exponents come from logarithms in units of 1/LogScale: amp + 2 units a
\* weight; W where that tells nothing
Tolerance(range, n, amp, W) ==
    IF range > W \div (n * (amp + 2)) THEN W ELSE n * range * (amp + 2)

\* weightedSum / weightSum for weights relative to the largest: q + r / W
\* steps as far as the weights tell (sum), in sixteen digits where that is
\* close to a whole step or midway between two
RelativeAverageOf(sorted, prices, v, sum, W, tol, ek, coarse, S, tieUp) ==
    IF sum.r > tol /\ sum.r + tol < W
         /\ (2 * sum.r > W + 2 * tol \/ 2 * sum.r + 2 * tol < W)
    THEN Quotient(sum.q, sum.r, W)
    ELSE FineAverage(sorted, prices, v, sum, W, ek, coarse, S, tieUp)

\* the largest amount of exponent: |v * daysSinceSale| of the oldest sale or
\* of the newest
LargestExponent(v, sorted, now) ==
    LET old == Abs(Decay(v, now - sorted[1].date).q) + 1
        new == Abs(Decay(v, now - sorted[Len(sorted)].date).q) + 1
    IN  IF old > new THEN old ELSE new

RelativeAverage(sorted, prices, v, weights, W, now, S, tieUp) ==
    LET ordered == SortNum(prices)
        amp == ((sorted[Len(sorted)].date - sorted[1].date)
                  \div (IF v.lo.dt < v.hi.dt THEN v.lo.dt ELSE v.hi.dt)) + 1
    IN  RelativeAverageOf(sorted, prices, v, WeightedSum(prices, weights.w, W), W,
            Tolerance(ordered[Len(ordered)] - ordered[1], Len(prices), amp, W),
            100 + 5 * LargestExponent(v, sorted, now) + 50 * amp,
            weights.least >= CoarseAt, S, tieUp)

\* ln(Number.MAX_VALUE) = 709.782712893384: Math.exp(x) is Infinity for an x
\* above it, and so is a sum of doubles above Number.MAX_VALUE
OverflowAt == [q |-> 709, f |-> 78271289]

\* m * Math.exp(-top) is Infinity, for an m whose logarithm lies from lnLo to
\* lnHi (in units of 1/LogScale): log(m) - top against OverflowAt in units of
\* 1e-6; where the two are as close as the rounding of the exponent
\* (window), as the rounding falls (tieUp)
ExceedsMax(top, lnLo, lnHi, window, tieUp) ==
    LET d    == -top.q - OverflowAt.q
        base == d * 1000000 - ((top.f + OverflowAt.f + 99) \div 100)
    IN  IF d > 40 THEN TRUE
        ELSE IF d < -40 THEN FALSE
        ELSE IF base + (lnLo \div 100) > window THEN TRUE
        ELSE IF base + (lnHi \div 100) + 2 < -window THEN FALSE
        ELSE tieUp

\* what the doubles make of weightedSum / weightSum where a weight or a sum
\* is Infinity (weights relative to the largest, W their sum, sum the
\* quotient weightedSum / weightSum in steps of 1 / S): "nan" for Infinity /
\* Infinity, "inf" for Infinity / weightSum, "zero" for weightedSum /
\* Infinity, "none" where both sums are finite
Overflow(top, W, sum, S, window, tieUp) ==
    LET lnWLo  == Ln(W \div 64) - Ln(WeightScale \div 64)
        lnWHi  == Ln((W \div 64) + 1) - Ln(WeightScale \div 64)
        lnLo   == lnWLo + Ln(IF sum.q < 1 THEN 1 ELSE sum.q) - Ln(S)
        lnHi   == lnWHi + Ln(sum.q + 1) - Ln(S)
        weight == ExceedsMax(top, 0, 0, window, tieUp)
        wSum   == ExceedsMax(top, lnWLo, lnWHi, window, tieUp)
        pSum   == ExceedsMax(top, lnLo, lnHi, window, tieUp)
    IN  IF weight \/ (wSum /\ pSum) THEN "nan"
        ELSE IF pSum THEN "inf"
        ELSE IF wSum THEN "zero"
        ELSE "none"

\* Overflow for the weights of the listings sorted by date
OverflowOf(sorted, prices, v, weights, W, now, S, tieUp) ==
    Overflow(weights.top, W, WeightedSum(prices, weights.w, W), S,
             2 + ((Abs(now - sorted[1].date) + Abs(now - sorted[Len(sorted)].date))
                    \div (IF v.lo.dt < v.hi.dt THEN v.lo.dt ELSE v.hi.dt))
                   \div 10,
             tieUp)

\* weightedSum / weightSum for weights that are no subnormal numbers
NormalAverage(sorted, prices, v, weights, now, S, tieUp, overflow) ==
    IF overflow = "nan" THEN NaNEst
    ELSE IF overflow = "inf" THEN InfinityEst
    ELSE IF overflow = "zero" THEN Num(0)
    ELSE RelativeAverage(sorted, prices, v, weights, SumSeq(weights.w), now, S,
                         tieUp)

\* weightSum > 0 ? weightedSum / weightSum : null
WeightedAverage(sorted, prices, v, weights, now, S, tieUp) ==
    IF weights.subnormal
    THEN UnitAverage(prices, weights.w, SumSeq(weights.w), S)
    ELSE NormalAverage(sorted, prices, v, weights, now, S, tieUp,
                       IF weights.top.q >= 0 THEN "none"
                       ELSE OverflowOf(sorted, prices, v, weights,
                                       SumSeq(weights.w), now, S, tieUp))

\* the weighted average for the volatility v; with v = 0 every weight is 1,
\* weightedSum is the sum of the prices and weightSum is n
LearnFromRate(sorted, prices, v, now, tieUp, S) ==
    IF v.hi.dl = 0 THEN SimpleAverage(prices, S)
    ELSE WeightedAverage(sorted, prices, v, Weights(sorted, v, now, tieUp),
                         now, S, tieUp)

\* Case 1 once validListings is sorted and logPriceDiffs is filled.  A date
\* that is NaN makes its weight, both sums and the comparison weightSum > 0
\* NaN: the result is null.
LearnFromDiffs(sorted, prices, logPriceDiffs, now, tieUp, den) ==
    IF Len(logPriceDiffs) = 0
    THEN SimpleAverage(prices, PencePerUnit * den)
    ELSE IF \E i \in 1..Len(sorted) : sorted[i].nan THEN NullEst
    ELSE LearnFromRate(sorted, prices, MedianRate(SortRates(logPriceDiffs)),
                       now, tieUp, PencePerUnit * den)

LearnFromSorted(sorted, now, tieUp, den) ==
    LearnFromDiffs(sorted, [i \in 1..Len(sorted) |-> sorted[i].price],
                   LogPriceDiffs(sorted, 2), now, tieUp, den)

\* Case 1: n >= 4
LearnFromTime(validListings, now, tieUp, den) ==
    LearnFromSorted(SortByDate(validListings), now, tieUp, den)

\* validListings.reduce((newest, item) => item.date > newest.date ? item : newest);
\* a comparison with NaN is false
RECURSIVE NewestFrom(_, _, _)
NewestFrom(newest, s, i) ==
    IF i > Len(s) THEN newest
    ELSE NewestFrom(IF ~s[i].nan /\ ~newest.nan /\ s[i].date > newest.date
                    THEN s[i] ELSE newest, s, i + 1)

Newest(s) == NewestFrom(s[1], s, 2)

\* the mean of logPrices
MeanLog(logPrices) ==
    logPrices[1]
      + RDiv(SumSeq([i \in 1..Len(logPrices) |-> logPrices[i] - logPrices[1]]),
             Len(logPrices))

\* Math.exp(avgLog) in steps, as whole steps q and a rest of r / LogScale
ExpSteps(e) == MulDiv(e.m, Pow2(e.k), LogScale)

\* exp(mean(log(price)))
GeometricCenter(validListings) ==
    ExpSteps(ExpParts(MeanLog([i \in 1..Len(validListings) |->
                                  Ln(validListings[i].price)])))

\* s without its first element equal to x
RECURSIVE RemoveFirst(_, _)
RemoveFirst(s, x) ==
    IF s = <<>> THEN <<>>
    ELSE IF Head(s) = x THEN Tail(s)
    ELSE <<Head(s)>> \o RemoveFirst(Tail(s), x)

\* a * b against c * d: -1, 0 or 1
ProductOrder(x, y) ==
    IF x.qh < y.qh \/ (x.qh = y.qh /\ x.ql < y.ql) THEN -1
    ELSE IF x = y THEN 0 ELSE 1

\* newest.price against the geometric center of the n = 2 or 3 prices,
\* decided on the prices: its power n - 1 against the product of the others
NewestToCenter(price, others) ==
    IF Len(others) = 1
    THEN ProductOrder(MulDivBig(price, 1, 1), MulDivBig(others[1], 1, 1))
    ELSE ProductOrder(MulDivBig(price, price, 1),
                      MulDivBig(others[1], others[2], 1))

\* (geometricCenter + newest.price) / 2.  Where the geometric center is a
\* whole number of steps as far as the logarithms tell, Math.exp(avgLog) is
\* that number up to the rounding of Math.log and Math.exp, which are
\* implementation-approximated: at or above it (tieUp) or below it.
HalfWithNewest(G, price, tieUp) ==
    LET tol   == 10 * G.q + 100
        whole == G.r <= tol \/ G.r >= LogScale - tol
        sum   == price + (IF G.r >= LogScale - tol THEN G.q + 1 ELSE G.q)
    IN  IF whole /\ ~tieUp
        THEN (IF sum % 2 = 0 THEN NumNear(sum \div 2) ELSE Num(sum \div 2))
        ELSE (IF sum % 2 = 0 THEN Num(sum \div 2)
              ELSE NumUnder((sum \div 2) + 1))

\* Case 2: n = 2 or 3.  Where the newest price is the geometric center,
\* Math.exp(avgLog) is that price up to the rounding of Math.log and
\* Math.exp: at or above the price (tieUp) the result is the price, below it
\* the result (geometricCenter + newest.price) / 2 lies below the price.
DirectionalTrustOf(newest, order, validListings, tieUp) ==
    IF order < 0 THEN Num(newest.price)
    ELSE IF order = 0
    THEN (IF tieUp THEN Num(newest.price) ELSE NumNear(newest.price))
    ELSE HalfWithNewest(GeometricCenter(validListings), newest.price, tieUp)

DirectionalTrust(validListings, tieUp) ==
    DirectionalTrustOf(
        Newest(validListings),
        NewestToCenter(Newest(validListings).price,
            RemoveFirst([i \in 1..Len(validListings) |-> validListings[i].price],
                        Newest(validListings).price)),
        validListings, tieUp)

\* calculateIntelligentAverage(listings), called when new Date() is `now`,
\* for prices in steps of 1 / den pence; rounding.up is how the rounding of
\* Math.exp and of Math.log falls on this input
calculateIntelligentAverage(listings, now, rounding, den) ==
    LET validListings == ValidDated(listings)
        n             == Len(validListings)
    IN  IF n = 0 THEN NullEst
        ELSE IF n >= 4 THEN LearnFromTime(validListings, now, rounding.up, den)
        ELSE IF n = 2 \/ n = 3 THEN DirectionalTrust(validListings, rounding.up)
        ELSE Num(validListings[1].price)

\* ------------------------------------------------------------------------
\* removeOutliers
\* ------------------------------------------------------------------------
\* ValidPrices without the test p > 0
NumericPrices(listings) ==
    LET IsNumber(p) == ~p.nan
        nums == [i \in 1..Len(listings) |-> NumberOf(listings[i].price)]
        vals == SelectSeq(nums, IsNumber)
    IN  [i \in 1..Len(vals) |-> vals[i].val]

\* listings.map(item => Number(item.price)).filter(p => !isNaN(p) && p > 0)
ValidPrices(listings) ==
    LET nums == [i \in 1..Len(listings) |-> NumberOf(listings[i].price)]
        vals == SelectSeq(nums, IsValidPrice)
    IN  [i \in 1..Len(vals) |-> vals[i].val]

\* listings.filter(item => set.has(Number(item.price))); no set of prices
\* holds NaN
KeepPriced(listings, set) ==
    LET Has(item) == LET p == NumberOf(item.price)
                     IN  ~p.nan /\ p.val \in set
    IN  SelectSeq(listings, Has)

\* FLOOR_RATIO = 0.25 = 1 / FLOOR_RATIO_INV
FLOOR_RATIO_INV == 4

\* p >= median * FLOOR_RATIO for a price p that is FLOOR_RATIO times the
\* mean of the middle prices a and b as decimals, decided as the doubles
\* decide it: dp, da and db are the doubles of p, a and b.  The sum of the
\* doubles of a and b lies T / (S * 2^sh) places of the last place from
\* (2 * FLOOR_RATIO_INV) times the double of p, and is rounded to its place.
FloorTieKept(dp, da, db, S) ==
    LET es   == dp.e + FloorLog2(2 * FLOOR_RATIO_INV)
        sh   == IF da.e < db.e THEN es - da.e ELSE es - db.e
        T    == da.rho * Pow2(sh - (es - da.e)) + db.rho * Pow2(sh - (es - db.e))
                  - dp.rho * Pow2(sh)
    IN  IF 2 * T < S * Pow2(sh) THEN TRUE
        ELSE IF 2 * T > S * Pow2(sh) THEN FALSE
        ELSE ~dp.odd

\* AboveFloor with p > median
AboveMedian(p, a, b, S) == 2 * p > a + b

\* p >= median * FLOOR_RATIO for the median (a + b) / 2 of the middle prices
\* a and b (one price twice for an odd count), prices in steps of 1 / S
AboveFloor(p, a, b, S) ==
    IF 2 * FLOOR_RATIO_INV * p # a + b THEN 2 * FLOOR_RATIO_INV * p > a + b
    ELSE FloorTieKept(NearestDouble(p, S), NearestDouble(a, S),
                      NearestDouble(b, S), S)

\* valid.filter(p => p >= median * FLOOR_RATIO) for the median of the middle
\* prices a and b, prices in steps of 1 / S
SemanticKept(valid, a, b, S) ==
    LET Passes(p) == AboveFloor(p, a, b, S)
    IN  SelectSeq(valid, Passes)

\* the median is that of sortedLinear: the middle price, or the mean of the
\* two middle prices
SemanticFrom(valid, sortedLinear, mid, S) ==
    SemanticKept(valid,
                 IF Len(valid) % 2 = 0 THEN sortedLinear[mid]
                 ELSE sortedLinear[mid + 1],
                 sortedLinear[mid + 1], S)

\* semanticFiltered of removeOutliers for the valid prices, in steps of
\* 1 / den pence
SemanticFiltered(valid, den) ==
    SemanticFrom(valid, SortNum(valid), Len(valid) \div 2, PencePerUnit * den)

\* percentile(arr, p) for p = quarters / 4, times 4 (exact): arr is the
\* ascending sequence of the logs, index = (arr.length - 1) * p
Percentile4(arr, quarters) ==
    LET index4 == (Len(arr) - 1) * quarters
        lower  == index4 \div 4
        upper  == IF index4 % 4 = 0 THEN lower ELSE lower + 1
    IN  IF lower = upper THEN 4 * arr[lower + 1]
        ELSE 4 * arr[lower + 1]
               + (arr[upper + 1] - arr[lower + 1]) * (index4 - 4 * lower)

\* Math.floor(index) and Math.ceil(index) of percentile(arr, quarters / 4),
\* counted from 1
LowerIndex(n, quarters) == (((n - 1) * quarters) \div 4) + 1
UpperIndex(n, quarters) == (((n - 1) * quarters + 3) \div 4) + 1

\* the logarithms of removeOutliers are held in units of 1e-7, and a
\* comparison of a log with a bound is decided by them when the two sides,
\* as compared below, are more than BoundMargin units apart
LogStep == 10
BoundMargin == 64

\* Closer than that the sides are compared to 16 digits.  The doubles carry
\* the rounding of Math.log (one place), of q1 and q3 (three roundings
\* each), of iqr and of the bound: some 20 places of a log below 16, which
\* is BoundSlack units of 1e-16 on sides of 4 or 8 times the log.
BoundSlack == <<0, 0, 0, 0, 2000>>

\* Math.log(p) for the price sorted[i], counted from the lowest log
HiLogPrice(sorted, i) == HiLn(sorted[i], sorted[1])

\* percentile(arr, quarters / 4) times 4, to 16 digits
HiPercentile4(sorted, quarters) ==
    LET index4 == (Len(sorted) - 1) * quarters
        lower  == index4 \div 4
        upper  == IF index4 % 4 = 0 THEN lower ELSE lower + 1
    IN  HiAdd(HiTimes(HiLogPrice(sorted, lower + 1), 4 - (index4 - 4 * lower)),
              HiTimes(HiLogPrice(sorted, upper + 1), index4 - 4 * lower))

\* lhs <= rhs for two sides of 16 digits: where they are as good as equal
\* the doubles fall as their rounding has it (tieKept)
HiWithin(lhs, rhs, tieKept) ==
    IF HiLess(HiAdd(lhs, BoundSlack), rhs) THEN TRUE
    ELSE IF HiLess(HiAdd(rhs, BoundSlack), lhs) THEN FALSE
    ELSE tieKept

\* p.log >= q1 - 1.5 * iqr for the price sorted[i], all sides times 8
AboveLower(i, sorted, tieKept) ==
    HiWithin(HiTimes(HiPercentile4(sorted, 1), 5),
             HiAdd(HiTimes(HiPercentile4(sorted, 3), 3),
                   HiTimes(HiLogPrice(sorted, i), 8)),
             tieKept)

\* p.log <= q3 + 3.0 * iqr for the price sorted[i], all sides times 4
BelowUpper(i, sorted, tieKept) ==
    HiWithin(HiAdd(HiTimes(HiLogPrice(sorted, i), 4),
                   HiTimes(HiPercentile4(sorted, 1), 3)),
             HiTimes(HiPercentile4(sorted, 3), 4),
             tieKept)

\* WithinBound with the strict comparison
WithinBoundStrict(lhs, rhs, exact, near) ==
    IF exact THEN lhs < rhs
    ELSE IF lhs + BoundMargin < rhs THEN TRUE
    ELSE IF lhs > rhs + BoundMargin THEN FALSE
    ELSE near

\* lhs <= rhs for the two sides of p.log >= lowerBound or p.log <=
\* upperBound, in units of 1e-7; near is the comparison to 16 digits, which
\* decides where these sides are as good as equal.  Where iqr is 0 every
\* step is exact and the sides are the prices themselves.
WithinBound(lhs, rhs, exact, near) ==
    IF exact THEN lhs <= rhs
    ELSE IF lhs + BoundMargin < rhs THEN TRUE
    ELSE IF lhs > rhs + BoundMargin THEN FALSE
    ELSE near

\* p.log >= lowerBound && p.log <= upperBound for the price sorted[i], all
\* sides times 4: lowerBound = q1 - 1.5 * iqr, upperBound = q3 + 3.0 * iqr.
\* q1 is at most the log at its upper index and q3 at least the log at its
\* lower index, whatever the rounding.  A log as good as on the lower bound
\* is kept where rounding.low, one as good as on the upper bound where
\* rounding.high.
InBounds(i, sorted, logs, q1x4, q3x4, rounding) ==
    IF sorted[LowerIndex(Len(sorted), 1)] = sorted[UpperIndex(Len(sorted), 3)]
    THEN /\ WithinBound(sorted[LowerIndex(Len(sorted), 1)], sorted[i], TRUE, TRUE)
         /\ WithinBound(sorted[i], sorted[LowerIndex(Len(sorted), 1)], TRUE, TRUE)
    ELSE /\ \/ sorted[i] >= sorted[UpperIndex(Len(sorted), 1)]
            \/ WithinBound(2 * (q1x4 - 4 * logs[i]), 3 * (q3x4 - q1x4), FALSE,
                           AboveLower(i, sorted, rounding.low))
         /\ \/ sorted[i] <= sorted[LowerIndex(Len(sorted), 3)]
            \/ WithinBound(4 * logs[i] - q3x4, 3 * (q3x4 - q1x4), FALSE,
                           BelowUpper(i, sorted, rounding.high))

\* the prices of pairs (sorted by log, which is by price) whose log lies in
\* [lowerBound, upperBound]
LogIqrSorted(sorted, logs, rounding) ==
    {sorted[i] : i \in {j \in 1..Len(sorted) :
        InBounds(j, sorted, logs, Percentile4(logs, 1), Percentile4(logs, 3),
                 rounding)}}

\* pairs with their logs counted from the lowest one
LogIqrFrom(sorted, rounding) ==
    LogIqrSorted(sorted,
                 [i \in 1..Len(sorted) |-> RDiv(Ln(sorted[i]) - Ln(sorted[1]), LogStep)],
                 rounding)

\* the prices of semanticFiltered whose log lies in
\* [q1 - 1.5 * iqr, q3 + 3.0 * iqr]
LogIqrPrices(semanticFiltered, rounding) ==
    LogIqrFrom(SortNum(semanticFiltered), rounding)

\* the result of removeOutliers for 4 or more valid prices:
\* semanticFiltered.length < 4 is the fallback to the listings of its prices
FilteredListings(listings, semanticFiltered, rounding) ==
    IF Len(semanticFiltered) < 4
    THEN KeepPriced(listings,
           {semanticFiltered[i] : i \in 1..Len(semanticFiltered)})
    ELSE KeepPriced(listings, LogIqrPrices(semanticFiltered, rounding))

\* FilteredListings whose fallback returns the input
FilteredFallbackInput(listings, semanticFiltered, rounding) ==
    IF Len(semanticFiltered) < 4 THEN listings
    ELSE KeepPriced(listings, LogIqrPrices(semanticFiltered, rounding))

\* removeOutliers whose fallback returns its input, as the early returns do
removeOutliersFallbackInput(listings, rounding, den) ==
    IF Len(ValidPrices(listings)) < 4 THEN listings
    ELSE FilteredFallbackInput(listings,
             SemanticFiltered(ValidPrices(listings), den), rounding)

\* removeOutliers(listings) for prices in steps of 1 / den pence, where the
\* rounding of the doubles on this input keeps (rounding.low, rounding.high)
\* or drops a log-price as good as on the lower or the upper bound
removeOutliers(listings, rounding, den) ==
    IF Len(ValidPrices(listings)) < 4 THEN listings
    ELSE FilteredListings(listings,
             SemanticFiltered(ValidPrices(listings), den), rounding)

\* ------------------------------------------------------------------------
\* runEbayScrape: the anomaly marking of a successful response
\* ------------------------------------------------------------------------
\* response.results.slice(0, RESULT_LIMIT)
RESULT_LIMIT == 20

\* Number(x.toFixed(2)) for a double x next to num / den pence, in pence:
\* the nearest whole penny.  Where num / den is midway between two pennies
\* the double lies at or above the midway (atLeast: the result is the penny
\* further from 0) or below it.
ToFixed2(num, den, atLeast) ==
    LET a   == Abs(num)
        q   == a \div den
        r   == a % den
        mag == IF 2 * r > den \/ (2 * r = den /\ atLeast) THEN q + 1 ELSE q
    IN  IF num < 0 THEN -mag ELSE mag

\* x.toFixed(2) in pence for the double x of a sum or a quotient
Fixed2(x) ==
    ToFixed2(x.P, x.S \div PencePerUnit,
             IF x.P < 0 THEN x.rho <= 0 ELSE x.rho >= 0)

\* Number(price).toFixed(2) in pence for a price of p steps of 1 / den pence
PriceFixed2(p, den) ==
    IF p = 0 THEN 0
    ELSE ToFixed2(p, den, DoubleOf(Abs(p), PencePerUnit * den).rho >= 0)

\* listings.filter(item => !isNaN(price) && price > 0)
ValidListings(listings) ==
    LET Valid(item) == IsValidPrice(NumberOf(item.price))
    IN  SelectSeq(listings, Valid)

\* item.isAnomalous for every listing of `listings`, in order:
\* !cleanedSet.has(Number(Number(item.price).toFixed(2))); NaN is in no set.
\* The prices count steps of 1 / den pence.
MarkedBy(listings, cleanedSet, den) ==
    [i \in 1..Len(listings) |->
        ~(~NumberOf(listings[i].price).nan
            /\ PriceFixed2(NumberOf(listings[i].price).val, den) \in cleanedSet)]

\* new Set(cleanedListings.map(l => Number(Number(l.price).toFixed(2))))
CleanedSet(cleanedListings, den) ==
    {PriceFixed2(NumberOf(cleanedListings[i].price).val, den) :
        i \in 1..Len(cleanedListings)}

\* the flags runEbayScrape gives the listings of a response
MarkListings(listings, rounding, den) ==
    MarkedBy(listings,
             CleanedSet(removeOutliers(ValidListings(listings), rounding, den),
                        den),
             den)

\* restoreEbayWizardState: the flags of state.listings
MarkRestored(listings, rounding, den) == MarkListings(listings, rounding, den)

\* ------------------------------------------------------------------------
\* calculateStats
\* ------------------------------------------------------------------------
\* { min: '-', avg: '-', median: '-', mode: '-' }
NoStats == [nodata |-> TRUE, min |-> 0, avg |-> 0, median |-> 0, mode |-> 0]

\* ModeScan moving mode to a price whose count reaches maxCount
RECURSIVE ModeScanLast(_, _, _, _, _)
ModeScanLast(sorted, i, frequency, mode, maxCount) ==
    IF i > Len(sorted) THEN mode
    ELSE LET price == sorted[i]
             count == (IF price \in DOMAIN frequency THEN frequency[price] ELSE 0) + 1
             freq2 == [p \in DOMAIN frequency \cup {price} |->
                          IF p = price THEN count ELSE frequency[p]]
         IN  IF count >= maxCount
             THEN ModeScanLast(sorted, i + 1, freq2, price, count)
             ELSE ModeScanLast(sorted, i + 1, freq2, mode, maxCount)

\* the loop over sorted (from index i) that counts each price in frequency
\* and moves mode to a price whose count exceeds maxCount
RECURSIVE ModeScan(_, _, _, _, _)
ModeScan(sorted, i, frequency, mode, maxCount) ==
    IF i > Len(sorted) THEN mode
    ELSE LET price == sorted[i]
             count == (IF price \in DOMAIN frequency THEN frequency[price] ELSE 0) + 1
             freq2 == [p \in DOMAIN frequency \cup {price} |->
                          IF p = price THEN count ELSE frequency[p]]
         IN  IF count > maxCount
             THEN ModeScan(sorted, i + 1, freq2, price, count)
             ELSE ModeScan(sorted, i + 1, freq2, mode, maxCount)

\* (sorted[mid - 1] + sorted[mid]) / 2 of the middle pair in doubles
MedianOf(pair, S) ==
    DoubleOver(DoubleSum(DoubleOf(pair[1], S), DoubleOf(pair[2], S)), 2)

\* the four fields for the valid prices in ascending order, as toFixed(2)
\* prints them, in pence; the sum and the quotients are those of the doubles
StatsOfSorted(sorted, S, den) ==
    [nodata |-> FALSE,
     min    |-> PriceFixed2(sorted[1], den),
     avg    |-> Fixed2(DoubleOver(DoubleSumOf(sorted, S), Len(sorted))),
     median |-> Fixed2(MedianOf(MiddlePair(sorted), S)),
     mode   |-> PriceFixed2(ModeScan(sorted, 1, [p \in {} |-> 0], sorted[1], 1),
                            den)]

\* calculateStats(listings), the prices counting steps of 1 / den pence
calculateStats(listings, den) ==
    IF Len(ValidPrices(listings)) = 0 THEN NoStats
    ELSE StatsOfSorted(SortNum(ValidPrices(listings)), PencePerUnit * den, den)

\* ------------------------------------------------------------------------
\* calculateBinWidth, generateHistogramData
\* ------------------------------------------------------------------------
\* Math.ceil(Math.log2(n)) for n >= 1
CeilLog2(n) == IF n = Pow2(FloorLog2(n)) THEN FloorLog2(n) ELSE FloorLog2(n) + 1

\* x - y in doubles
DoubleDiff(x, y) == DoubleSum(x, [y EXCEPT !.P = -y.P, !.rho = -y.rho])

\* the double x is at most T currency units, T a whole number
AtMostWhole(x, T) ==
    IF x.P \div x.S = T /\ x.P % x.S = 0 THEN x.rho <= 0
    ELSE x.P \div x.S < T

\* how far the doubles may put 3 log(2 iqr / T) from log(n), in units of
\* 1e-16: the rounding of 1/3, of Math.pow and of the quotient
PowSlack == 100

\* X / Y <= Math.pow(n, 1/3) for whole numbers X and Y, decided by the
\* logarithms in sixteen digits; where the two are as good as equal, as the
\* rounding of Math.pow falls (up: at or above)
PowAtMostOf(L, R, up) ==
    IF HiLess(HiAdd(L, <<0, 0, 0, 0, PowSlack>>), R) THEN TRUE
    ELSE IF HiLess(HiAdd(R, <<0, 0, 0, 0, PowSlack>>), L) THEN FALSE
    ELSE up

\* the whole number of hundredths in the cube root of n, from c on
RECURSIVE CubeRootFrom(_, _)
CubeRootFrom(n, c) ==
    IF (c + 1) * (c + 1) * (c + 1) > 1000000 * n THEN c
    ELSE CubeRootFrom(n, c + 1)

\* X / Y is below c hundredths, at most the cube root of n, or above c + 1
\* hundredths, which is more; in between the logarithms decide
PowAtMost(X, Y, n, up) ==
    LET c == CubeRootFrom(n, 100)
    IN  IF X <= Y \/ 100 * X < c * Y THEN TRUE
        ELSE IF 100 * X > (c + 1) * Y THEN FALSE
        ELSE PowAtMostOf(HiTimes(HiLn(X, Y), 3), HiLn(n, 1), up)

\* binWidth before it is rounded to a nice number is [fd, x, n, up]:
\* (2 * iqr) / Math.pow(n, 1/3) for the double x = iqr (fd), or the double
\* x = range / numBins.  binWidth <= T for a whole number T of currency
\* units: Math.pow(8, 1/3) is 2, and (2 * iqr) / 2 is iqr
WidthAtMost(w, T) ==
    IF ~w.fd \/ w.n = 8 THEN AtMostWhole(w.x, T)
    ELSE PowAtMost(2 * w.x.P, T * w.x.S, w.n, w.up)

\* the rounding to a nice number: magnitude is 10^floor(log10(binWidth)),
\* normalized is binWidth / magnitude, rounded is 1, 2, 5 or 10 and
\* Math.max(1, rounded * magnitude) is the least of 1, 2, 5, 10, 20, 50, ...
\* that binWidth is at most (from mag on, in currency units)
RECURSIVE NiceFrom(_, _)
NiceFrom(w, mag) ==
    IF WidthAtMost(w, 1 * mag) THEN 1 * mag
    ELSE IF WidthAtMost(w, 2 * mag) THEN 2 * mag
    ELSE IF WidthAtMost(w, 5 * mag) THEN 5 * mag
    ELSE NiceFrom(w, 10 * mag)

\* calculateBinWidth after the sort: range = max - min and iqr = q3 - q1 are
\* differences of doubles; Freedman-Diaconis for iqr > 0 and n >= 4, else
\* Sturges with numBins = Math.ceil(1 + Math.log2(n))
BinWidthOfSorted(sorted, n, S, up) ==
    LET min == DoubleOf(sorted[1], S)
        max == DoubleOf(sorted[n], S)
        q1  == DoubleOf(sorted[(n \div 4) + 1], S)
        q3  == DoubleOf(sorted[((3 * n) \div 4) + 1], S)
    IN  IF sorted[n] = sorted[1] THEN 10
        ELSE IF sorted[((3 * n) \div 4) + 1] > sorted[(n \div 4) + 1] /\ n >= 4
        THEN NiceFrom([fd |-> TRUE, x |-> DoubleDiff(q3, q1), n |-> n,
                       up |-> up], 1)
        ELSE NiceFrom([fd |-> FALSE,
                       x |-> DoubleOver(DoubleDiff(max, min), 1 + CeilLog2(n)),
                       n |-> n, up |-> up], 1)

\* calculateBinWidth(prices), in steps of 1 / den pence
calculateBinWidth(prices, rounding, den) ==
    IF Len(prices) < 2 THEN 10 * PencePerUnit * den
    ELSE BinWidthOfSorted(SortNum(prices), Len(prices), PencePerUnit * den,
                          rounding.up) * PencePerUnit * den

NoHistogram == [bins |-> <<>>, frequencies |-> <<>>, binWidth |-> 0]

\* BinsAndFrequencies without the move of bins.length and more to the last bin
BinsAndFrequenciesNoClamp(prices, binWidth, startBin, length) ==
    LET binIndex(price) == (price - startBin) \div binWidth
    IN  [bins |-> [i \in 1..length |->
                     [start |-> startBin + (i - 1) * binWidth,
                      end   |-> startBin + i * binWidth]],
         frequencies |-> [i \in 1..length |->
                     Cardinality({j \in 1..Len(prices) :
                                    binIndex(prices[j]) = i - 1})],
         binWidth |-> binWidth]

\* the bins from startBin up to endBin (both multiples of binWidth) and the
\* count of prices in each: binIndex is Math.floor((price - startBin) /
\* binWidth), moved to the last bin when it is bins.length or more, and a
\* price is counted when its index is one of a bin
BinsAndFrequencies(prices, binWidth, startBin, length) ==
    LET ActualIndex(price) ==
            LET binIndex == (price - startBin) \div binWidth
            IN  IF binIndex >= length THEN length - 1 ELSE binIndex
    IN  [bins |-> [i \in 1..length |->
                     [start |-> startBin + (i - 1) * binWidth,
                      end   |-> startBin + i * binWidth]],
         frequencies |-> [i \in 1..length |->
                     Cardinality({j \in 1..Len(prices) :
                                    ActualIndex(prices[j]) = i - 1})],
         binWidth |-> binWidth]

\* startBin = Math.floor(min / binWidth) * binWidth, endBin =
\* Math.ceil(max / binWidth) * binWidth; a bin for every binStart from
\* startBin in steps of binWidth while binStart < endBin
HistogramFrom(prices, min, max, binWidth) ==
    LET startBin == (min \div binWidth) * binWidth
        endBin   == ((max + binWidth - 1) \div binWidth) * binWidth
    IN  BinsAndFrequencies(prices, binWidth, startBin,
                           (endBin - startBin) \div binWidth)

\* generateHistogramData(listings), bins and binWidth in steps of 1 / den pence
generateHistogramData(listings, rounding, den) ==
    LET prices == ValidPrices(listings)
    IN  IF Len(prices) = 0 THEN NoHistogram
        ELSE LET sorted == SortNum(prices)
             IN  HistogramFrom(prices, sorted[1], sorted[Len(sorted)],
                               calculateBinWidth(prices, rounding, den))

\* ------------------------------------------------------------------------
\* The arrays of a call: what map, filter, the spread and sort do to them
\* ------------------------------------------------------------------------
\* the arrays a call works on, under the names the code gives them; `input`
\* is the array the caller passed
Passed(listings) == [name \in {"input"} |-> listings]

\* const name = array.map(...), array.filter(...) or [...array]: a new array
\* of these elements; the arrays there are stay as they are
NewArray(arrays, name, elements) ==
    [k \in DOMAIN arrays \cup {name} |->
        IF k = name THEN elements ELSE arrays[k]]

\* name.sort(...): the array is sorted in place, no other array changes
SortedInPlace(arrays, name, sorted) == [arrays EXCEPT ![name] = sorted]

\* calculateStats sorting listings in place by price, without prices and the
\* copy of line 2189
calculateStatsSortingInput(listings) ==
    SortedInPlace(Passed(listings), "input", SortByPrice(listings))

\* the arrays of calculateStats(listings): prices is mapped and filtered
\* from listings, sorted is a copy of prices, sorted in place
calculateStatsArrays(listings) ==
    LET prices == NewArray(Passed(listings), "prices", ValidPrices(listings))
    IN  IF Len(prices["prices"]) = 0 THEN prices
        ELSE SortedInPlace(NewArray(prices, "sorted", prices["prices"]),
                           "sorted", SortNum(prices["prices"]))

\* the arrays of calculateBinWidth(prices), called with the array `from`:
\* sorted is a copy of it, sorted in place
calculateBinWidthArrays(arrays, from) ==
    IF Len(arrays[from]) < 2 THEN arrays
    ELSE SortedInPlace(NewArray(arrays, "binWidthSorted", arrays[from]),
                       "binWidthSorted", SortNum(arrays[from]))

\* the arrays of generateHistogramData(listings): prices is mapped and
\* filtered from listings, sorted is a copy of prices, sorted in place, and
\* calculateBinWidth(prices) is called; bins and frequencies are new arrays
\* the function fills with push
generateHistogramDataArrays(listings) ==
    LET prices == NewArray(Passed(listings), "prices", ValidPrices(listings))
    IN  IF Len(prices["prices"]) = 0 THEN prices
        ELSE calculateBinWidthArrays(
                 SortedInPlace(NewArray(prices, "sorted", prices["prices"]),
                               "sorted", SortNum(prices["prices"])),
                 "prices")

\* the arrays of removeOutliers(listings): prices is mapped and filtered from
\* listings, valid filtered from prices, sortedLinear a copy of valid, sorted
\* in place, semanticFiltered filtered from valid, and pairs mapped from
\* semanticFiltered and sorted in place by the logs, which is by the prices.
\* What is returned is listings itself or a new array filtered from it.
removeOutliersArrays(listings, den) ==
    LET prices == NewArray(Passed(listings), "prices", ValidPrices(listings))
        valid  == NewArray(prices, "valid", prices["prices"])
        linear == SortedInPlace(
                      NewArray(valid, "sortedLinear", valid["valid"]),
                      "sortedLinear", SortNum(valid["valid"]))
        floor  == NewArray(linear, "semanticFiltered",
                           SemanticFiltered(valid["valid"], den))
    IN  IF Len(prices["prices"]) < 4 THEN prices
        ELSE IF Len(floor["semanticFiltered"]) < 4 THEN floor
        ELSE SortedInPlace(
                 NewArray(floor, "pairs", floor["semanticFiltered"]),
                 "pairs", SortNum(floor["semanticFiltered"]))

\* the arrays of calculateIntelligentAverage(listings): validListings is
\* mapped from listings to new objects { price, date } and filtered, and for
\* 4 or more of them sorted in place by date; the arrays of the time
\* differences, rates and weights are new and filled by the function
calculateIntelligentAverageArrays(listings) ==
    LET mapped == NewArray(Passed(listings), "validListings",
                           ValidDated(listings))
    IN  IF Len(mapped["validListings"]) < 4 THEN mapped
        ELSE SortedInPlace(mapped, "validListings",
                           SortByDate(mapped["validListings"]))

\* ------------------------------------------------------------------------
\* State: one input of the pipeline and what the calls made on it returned
\* ------------------------------------------------------------------------
VARIABLES
    listings,     \* the listings passed to the functions
    steps,        \* the prices of listings count steps of 1 / steps pence
    fpTie,        \* how the rounding of the doubles falls on this input: see Roundings
    now,          \* the clock: what new Date() returns, in hours
    cleaned,      \* <<removeOutliers(listings)>> once called, else <<>>
    isAnomalous,  \* <<the flags set by a scrape or a restore>> once run, else <<>>
    estimates,    \* [now, est] of each calculateIntelligentAverage call
    stats,        \* <<calculateStats(listings)>> once called, else <<>>
    histogram     \* <<generateHistogramData(listings)>> once called, else <<>>

\* The eBay page of the research wizard: the module-level variables of
\* ebay_modal.js, the DOM it reads back, the window globals and the requests
\* in flight
VARIABLES
    isEbayScraping,      \* let isEbayScraping (the wizard button is disabled with it)
    ebayWizardStep,      \* let ebayWizardStep: 1 or 2
    page,                \* the page of the wizard shown: "overview" or "ebay"
    searchInput,         \* ebaySearchInput.value.trim()
    selectedFilters,     \* let selectedFilters: the option labels selected
    filtersFor,          \* the term the filters in ebayFiltersContainer were
                         \* fetched for; NoFilters when it holds no filters
    fetches,             \* the fetch() calls not yet answered
    nFetches,            \* fetch() calls made so far
    scrapes,             \* the scrapeData requests awaited by runEbayScrape
    nScrapes,            \* scrapeData messages sent so far
    priceStats,          \* the text of #ebay-min, -avg, -median, -mode
    ebayRrpNumeric,      \* let ebayRrpNumeric (rrpDisplay shows it, or '--')
    ebayOfferNumeric,    \* let ebayOfferNumeric (offerDisplay shows it, or '--')
    showAnomalies,       \* #ebayShowAnomalies.checked
    ebayPriceCache,      \* window._ebayPriceCache
    currentEbayResults,  \* window.currentEbayResults
    wizardStateEbay      \* window.wizardState.ebay

wizardVars == <<isEbayScraping, ebayWizardStep, page, searchInput,
                selectedFilters, filtersFor,
                fetches, nFetches, scrapes, nScrapes, priceStats,
                ebayRrpNumeric, ebayOfferNumeric, showAnomalies,
                ebayPriceCache, currentEbayResults, wizardStateEbay>>

\* The page side of the extension bridge (sendExtensionMessage)
VARIABLES
    promises,     \* the promises sendExtensionMessage has returned, in order
    posted,       \* the messages posted to the window and not yet dispatched,
                  \* in the order of their postMessage calls
    events        \* the message events and timer expiries so far, in order

bridgeVars == <<promises, posted, events>>

vars == <<listings, steps, fpTie, now, cleaned, isAnomalous, estimates,
          stats, histogram, wizardVars, bridgeVars>>

MaxListings == 5      \* longest input of the outlier filter
MaxDated == 4         \* longest input of the estimator
MaxCalls == 2         \* calls of the estimator on one input

\* the sequences over dom of length at most n
SeqsUpTo(dom, n) == UNION {[1..k -> dom] : k \in 0..n}

Jan1 == DateHours(2026, 0, 1)

\* sold texts: two day-month-year dates a day apart and a text only the
\* engine parses, 6 hours after the first
SoldTexts ==
    {SoldDmy(1, "jan", 2026), SoldDmy(2, "january", 2026),
     SoldOther(TRUE, Jan1 + 6)}

\* a sold text whose month is no month, but a name that months[monthName]
\* finds
SoldInherited == SoldDmy(1, "constructor", 2026)

DatedListings ==
    {Listing(Price(p), s) : p \in {5000, 20000}, s \in SoldTexts}
      \cup {Listing(Price(5000), SoldInherited),
            Listing(Price(20000), SoldDmy(1, "foo", 2026)),
            Listing(BadPrice, SoldDmy(1, "jan", 2026)),
            Listing(Price(0), SoldDmy(1, "jan", 2026))}

PricedListings ==
    {Listing(Price(p), NoSold) : p \in {0, 300, 2500, 10000, 17500}}
      \cup {Listing(BadPrice, NoSold)}

\* prices in fifths of a penny (a step is 0.002): no price is midway between
\* two pennies
FineDen == 5

\* 25.002, 25.004, 100.014 and 150.00, and a price that is not valid
FineListings ==
    {Listing(Price(p), NoSold) : p \in {12501, 12502, 50007, 75000}}
      \cup {Listing(BadPrice, NoSold)}

\* a response of more than RESULT_LIMIT results, the last one far below the
\* others
LongResults ==
    [i \in 1..(RESULT_LIMIT + 1) |->
        Listing(Price(IF i <= RESULT_LIMIT THEN 50007 ELSE 12501), NoSold)]

\* 10.00, 20.00, 10.01 and 55.002 in steps of 0.002, with a sale date,
\* without one and with a month that is none, and prices that are not valid
StatListings ==
    {Listing(Price(5000), SoldDmy(1, "jan", 2026)),
     Listing(Price(10000), SoldDmy(2, "january", 2026)),
     Listing(Price(5005), NoSold),
     Listing(Price(27501), SoldInherited),
     Listing(BadPrice, SoldDmy(1, "jan", 2026)),
     Listing(Price(-500), NoSold)}

\* the clock starts after every sale and may run on by FarDays days
Now0 == DateHours(2026, 0, 3)
FarDays == 600

\* null, NaN and a number, as ebayRrpNumeric and ebayOfferNumeric hold them
JsNull == [kind |-> "null", val |-> 0]
JsNaN == [kind |-> "nan", val |-> 0]
JsNum(v) == [kind |-> "num", val |-> v]
JsInfinity == [kind |-> "inf", val |-> 0]

\* ebayFiltersContainer holding no filters (empty, a placeholder or an error)
NoFilters == "-"
\* searchTerm: null
NoTerm == "null"

\* a window global that is undefined, and one that holds an array
Undefined == [set |-> FALSE, listings |-> <<>>]
Holding(array) == [set |-> TRUE, listings |-> array]

\* window.wizardState.ebay as research_wizard.js creates it.  prices: null is
\* read back as '-' everywhere, and showAnomalies is undefined, which the
\* restore reads as true.
InitialEbay ==
    [searchTerm |-> NoTerm, filters |-> {}, prices |-> NoStats,
     selectedOffer |-> JsNull, rrp |-> JsNull, listings |-> <<>>,
     showAnomalies |-> TRUE]

\* the page once ebay_modal.js has run and the wizard has opened on its
\* overview: nothing typed, fetched or scraped
WizardLoaded ==
    /\ isEbayScraping = FALSE
    /\ ebayWizardStep = 1
    /\ page = "overview"
    /\ searchInput = ""
    /\ selectedFilters = {}
    /\ filtersFor = NoFilters
    /\ fetches = {} /\ nFetches = 0
    /\ scrapes = {} /\ nScrapes = 0
    /\ priceStats = NoStats
    /\ ebayRrpNumeric = JsNull /\ ebayOfferNumeric = JsNull
    /\ showAnomalies = TRUE
    /\ ebayPriceCache = Undefined
    /\ currentEbayResults = Undefined
    /\ wizardStateEbay = InitialEbay

\* the page at step 2 with the filters of "ps5" shown, once the wizard button
\* has called runEbayScrape(): the scrapeData request is awaited
ScrapeAwaited ==
    /\ isEbayScraping = TRUE
    /\ ebayWizardStep = 2
    /\ page = "ebay"
    /\ searchInput = "ps5"
    /\ selectedFilters = {}
    /\ filtersFor = "ps5"
    /\ fetches = {} /\ nFetches = 1
    /\ scrapes = {[n |-> 1, term |-> "ps5", promise |-> 1]} /\ nScrapes = 1
    /\ priceStats = NoStats
    /\ ebayRrpNumeric = JsNull /\ ebayOfferNumeric = JsNull
    /\ showAnomalies = TRUE
    /\ ebayPriceCache = Undefined
    /\ currentEbayResults = Undefined
    /\ wizardStateEbay = InitialEbay

\* no message has been sent to the extension
BridgeLoaded ==
    /\ promises = <<>>
    /\ posted = <<>>
    /\ events = <<>>

\* How the rounding of the doubles falls on an input, where the decimals
\* leave it open: up for the logarithms and exponentials of the estimator
\* (a result next to a whole step or a midway lies at or above it), low and
\* high for removeOutliers (a log-price as good as on the lower or the upper
\* bound is kept), last for the offer (an estimate next to a midway n + 0.5
\* of 0.4 times itself is the last double below).  The offer is computed
\* from an estimate with a sale date only on the eBay page, so last is
\* fixed where the functions are called on their own.
Roundings == [up : BOOLEAN, low : BOOLEAN, high : BOOLEAN, last : BOOLEAN]

\* the bridge once the response to the one request "r1" has been dispatched:
\* the message and its response are events, the promise is resolved, its
\* listener removed, its timer still running
BridgeResolved ==
    /\ promises = <<[requestId |-> "r1", state |-> "resolved",
                     listening |-> FALSE, timer |-> TRUE,
                     born |-> 0, calls |-> 1]>>
    /\ posted = <<>>
    /\ events = <<[kind |-> "message", type |-> "EXTENSION_MESSAGE",
                   requestId |-> "r1", error |-> FALSE, promise |-> 0],
                  [kind |-> "message", type |-> "EXTENSION_RESPONSE",
                   requestId |-> "r1", error |-> FALSE, promise |-> 0]>>

TypeOK ==
    /\ fpTie \in Roundings
    /\ steps \in {1, FineDen}
    /\ Len(cleaned) <= 1 /\ Len(isAnomalous) <= 1
    /\ Len(estimates) <= MaxCalls
    /\ Len(stats) <= 1 /\ Len(histogram) <= 1

\* no function has been called yet
NoneCalled ==
    /\ now = Now0
    /\ cleaned = <<>> /\ isAnomalous = <<>> /\ estimates = <<>>
    /\ stats = <<>> /\ histogram = <<>>

\* nothing has been called yet
NoCalls == NoneCalled /\ WizardLoaded /\ BridgeLoaded

\* the scrape is awaited, its response has been dispatched and resolved its
\* promise, and the success branch of runEbayScrape has not run yet
ScrapeResolved == NoneCalled /\ ScrapeAwaited /\ BridgeResolved

\* four listings sold within 6 hours, and one whose month is no month
SameDayListings ==
    <<Listing(Price(5000), SoldDmy(1, "jan", 2026)),
      Listing(Price(20000), SoldDmy(1, "jan", 2026)),
      Listing(Price(5000), SoldOther(TRUE, Jan1 + 6)),
      Listing(Price(20000), SoldDmy(1, "jan", 2026)),
      Listing(Price(5000), SoldInherited)>>

InitEstimator ==
    /\ listings \in SeqsUpTo(DatedListings, MaxDated) \cup {SameDayListings}
    /\ steps = 1
    /\ fpTie \in {r \in Roundings : r.low /\ r.high /\ r.last}
    /\ NoCalls

\* 5.05, 20.01, 20.39 and 21.39: the first is a quarter of the median 20.20
FloorResults ==
    [i \in 1..4 |-> Listing(Price(<<505, 2001, 2039, 2139>>[i]), NoSold)]

InitOutliers ==
    /\ listings \in SeqsUpTo(PricedListings, MaxListings) \cup {FloorResults}
    /\ steps = 1
    /\ fpTie \in {r \in Roundings : r.up /\ r.last}
    /\ ScrapeResolved

InitMarking ==
    /\ listings \in SeqsUpTo(FineListings, MaxListings) \cup {LongResults}
    /\ steps = FineDen
    /\ fpTie \in {r \in Roundings : r.up /\ r.last}
    /\ ScrapeResolved

InitStats ==
    /\ listings \in SeqsUpTo(StatListings, MaxListings)
    /\ steps = FineDen
    /\ fpTie \in {r \in Roundings : r.low /\ r.high /\ r.last}
    /\ NoCalls

\* time passes
Tick ==
    /\ now = Now0
    /\ now' = Now0 + FarDays * HoursPerDay
    /\ UNCHANGED <<listings, steps, fpTie, cleaned, isAnomalous, estimates,
                   stats, histogram>>
    /\ UNCHANGED <<wizardVars, bridgeVars>>

\* the module-level variables and window properties a call of one of the
\* four functions assigns: every identifier they assign is declared in the
\* function (const, let), they write no field of a listing, and window and
\* document appear in none of them
PipelineWrites == [name \in {} |-> FALSE]

\* the value of the variable `name` of the page after a call that wrote
\* `writes`
After(writes, name, old) ==
    IF name \in DOMAIN writes THEN writes[name] ELSE old

\* the page and the bridge after a call that wrote `writes`
PageAfter(writes) ==
    /\ isEbayScraping' = After(writes, "isEbayScraping", isEbayScraping)
    /\ ebayWizardStep' = After(writes, "ebayWizardStep", ebayWizardStep)
    /\ page' = After(writes, "page", page)
    /\ searchInput' = After(writes, "searchInput", searchInput)
    /\ selectedFilters' = After(writes, "selectedFilters", selectedFilters)
    /\ filtersFor' = After(writes, "filtersFor", filtersFor)
    /\ fetches' = After(writes, "fetches", fetches)
    /\ nFetches' = After(writes, "nFetches", nFetches)
    /\ scrapes' = After(writes, "scrapes", scrapes)
    /\ nScrapes' = After(writes, "nScrapes", nScrapes)
    /\ priceStats' = After(writes, "priceStats", priceStats)
    /\ ebayRrpNumeric' = After(writes, "ebayRrpNumeric", ebayRrpNumeric)
    /\ ebayOfferNumeric' = After(writes, "ebayOfferNumeric", ebayOfferNumeric)
    /\ showAnomalies' = After(writes, "showAnomalies", showAnomalies)
    /\ ebayPriceCache' = After(writes, "ebayPriceCache", ebayPriceCache)
    /\ currentEbayResults' =
           After(writes, "currentEbayResults", currentEbayResults)
    /\ wizardStateEbay' = After(writes, "wizardStateEbay", wizardStateEbay)
    /\ promises' = After(writes, "promises", promises)
    /\ posted' = After(writes, "posted", posted)
    /\ events' = After(writes, "events", events)

\* a call of one of the four functions has left the array passed as
\* `arrays` has it, and the page as the call wrote it
Called(arrays) ==
    /\ listings' = arrays["input"]
    /\ PageAfter(PipelineWrites)
    /\ UNCHANGED <<steps, fpTie, now>>

CallAverage ==
    /\ Len(estimates) < MaxCalls
    /\ estimates' = Append(estimates,
            [now |-> now, est |-> calculateIntelligentAverage(listings, now, fpTie, steps)])
    /\ Called(calculateIntelligentAverageArrays(listings))
    /\ UNCHANGED <<cleaned, isAnomalous, stats, histogram>>

CallRemoveOutliers ==
    /\ cleaned = <<>>
    /\ cleaned' = <<removeOutliers(listings, fpTie, steps)>>
    /\ Called(removeOutliersArrays(listings, steps))
    /\ UNCHANGED <<isAnomalous, estimates, stats, histogram>>

CallStats ==
    /\ stats = <<>>
    /\ stats' = <<calculateStats(listings, steps)>>
    /\ Called(calculateStatsArrays(listings))
    /\ UNCHANGED <<cleaned, isAnomalous, estimates, histogram>>

CallHistogram ==
    /\ histogram = <<>>
    /\ histogram' = <<generateHistogramData(listings, fpTie, steps)>>
    /\ Called(generateHistogramDataArrays(listings))
    /\ UNCHANGED <<cleaned, isAnomalous, estimates, stats>>

NextEstimator == Tick \/ CallAverage
\* the estimator called once on an input
CallAverageOnce ==
    /\ estimates = <<>>
    /\ CallAverage

NextStats == CallStats \/ CallHistogram \/ CallAverageOnce

SpecEstimator == InitEstimator /\ [][NextEstimator]_vars
SpecStats == InitStats /\ [][NextStats]_vars

\* ------------------------------------------------------------------------
\* The four functions called in any order on one input array
\* ------------------------------------------------------------------------
\* listings in no order of price or date, some without a usable price or a
\* sale date
FrameListings ==
    {Listing(Price(20000), SoldDmy(2, "january", 2026)),
     Listing(Price(5000), SoldDmy(1, "jan", 2026)),
     Listing(Price(7500), NoSold),
     Listing(BadPrice, SoldOther(TRUE, Jan1 + 6))}

InitFrame ==
    /\ listings \in SeqsUpTo(FrameListings, MaxDated)
    /\ steps = 1
    /\ fpTie \in {r \in Roundings : r.last}
    /\ NoCalls

NextFrame == CallRemoveOutliers \/ CallStats \/ CallHistogram \/ CallAverage

SpecFrame == InitFrame /\ [][NextFrame]_vars

\* ------------------------------------------------------------------------
\* sendExtensionMessage: the promise, its message listener and its timer
\* ------------------------------------------------------------------------
\* the variables of the pipeline functions
pipelineVars == <<listings, steps, fpTie, now, cleaned, isAnomalous,
                  estimates, stats, histogram>>

MaxRequests == 2      \* calls of sendExtensionMessage
MaxResponses == 2     \* EXTENSION_RESPONSE messages posted to the window

\* values of Math.random().toString(36).substr(2, 9); two calls may draw the
\* same one
RequestIds == {"r1", "r2"}

\* event.data.response of a scrape: { success: false }, or success with
\* results
NoSuccess == [success |-> FALSE, results |-> <<>>]
Success(results) == [success |-> TRUE, results |-> results]

\* the data of the message sendExtensionMessage posts, and of a response
RequestData(requestId) ==
    [type |-> "EXTENSION_MESSAGE", requestId |-> requestId, error |-> FALSE,
     response |-> NoSuccess]
ResponseData(requestId, error, response) ==
    [type |-> "EXTENSION_RESPONSE", requestId |-> requestId, error |-> error,
     response |-> response]

\* EXTENSION_RESPONSE messages posted to the window so far: those waiting
\* for their dispatch and those dispatched
ResponsesSoFar ==
    Cardinality({k \in 1..Len(posted) : posted[k].type = "EXTENSION_RESPONSE"})
      + Cardinality({j \in 1..Len(events) :
                        /\ events[j].kind = "message"
                        /\ events[j].type = "EXTENSION_RESPONSE"})

\* responseHandler's condition without the comparison of the request ids
MatchesAnyRequest(data, requestId) ==
    data.type = "EXTENSION_RESPONSE"

\* event.data.type === 'EXTENSION_RESPONSE' && event.data.requestId === requestId
Matches(data, requestId) ==
    data.type = "EXTENSION_RESPONSE" /\ data.requestId = requestId

\* resolve() or reject() called on a promise: only the first call settles it
Settle(p, outcome) ==
    [p EXCEPT !.calls = @ + 1,
              !.state = IF @ = "pending" THEN outcome ELSE @]

\* responseHandler(event) of promise p, while it is a listener of the window
responseHandler(p, data) ==
    IF p.listening /\ Matches(data, p.requestId)
    THEN Settle([p EXCEPT !.listening = FALSE],
                IF data.error THEN "rejected" ELSE "resolved")
    ELSE p

\* sendExtensionMessage(message) drawing requestId: a new promise with its
\* listener, its own EXTENSION_MESSAGE posted to the window (one message
\* event each call, behind those already posted), its 60 s timer started
sendExtensionMessage(requestId) ==
    /\ promises' = Append(promises,
            [requestId |-> requestId, state |-> "pending",
             listening |-> TRUE, timer |-> TRUE,
             born |-> Len(events), calls |-> 0])
    /\ posted' = Append(posted, RequestData(requestId))
    /\ UNCHANGED events

\* a call of sendExtensionMessage
SendExtensionMessage ==
    \E requestId \in RequestIds :
        /\ Len(promises) < MaxRequests
        /\ sendExtensionMessage(requestId)
        /\ UNCHANGED <<pipelineVars, wizardVars>>

\* window.postMessage of a response: one more message event, whatever has
\* been posted before
PostResponse(requestId, error, response) ==
    /\ ResponsesSoFar < MaxResponses
    /\ posted' = Append(posted, ResponseData(requestId, error, response))

\* the content script posts a response: to a request of the page or to
\* someone else's, with or without an error
ExtensionResponds ==
    \E requestId \in RequestIds, error \in BOOLEAN :
        /\ PostResponse(requestId, error, NoSuccess)
        /\ UNCHANGED <<promises, events, pipelineVars, wizardVars>>

\* the message event of `data`
MessageEvent(data) ==
    [kind |-> "message", type |-> data.type, requestId |-> data.requestId,
     error |-> data.error, promise |-> 0]

\* the expiry of the timer of promise i
TimeoutEvent(i) ==
    [kind |-> "timeout", type |-> "", requestId |-> "", error |-> FALSE,
     promise |-> i]

\* the message event of the oldest message posted is dispatched to every
\* listener of the window
DispatchMessage ==
    /\ posted # <<>>
    /\ posted' = Tail(posted)
    /\ events' = Append(events, MessageEvent(Head(posted)))
    /\ promises' = [i \in DOMAIN promises |->
                        responseHandler(promises[i], Head(posted))]

\* a message event is dispatched
MessageDispatched ==
    /\ DispatchMessage
    /\ UNCHANGED <<pipelineVars, wizardVars>>

\* the setTimeout callback of promise i: the listener is removed and
\* reject(new Error('Extension communication timeout')) is called
TimerCallback(i) ==
    /\ promises' = [promises EXCEPT ![i] =
            Settle([@ EXCEPT !.timer = FALSE, !.listening = FALSE],
                   "timeout")]
    /\ events' = Append(events, TimeoutEvent(i))
    /\ UNCHANGED posted

\* the timer of a promise expires
TimeoutFires ==
    \E i \in DOMAIN promises :
        /\ promises[i].timer
        /\ TimerCallback(i)
        /\ UNCHANGED <<pipelineVars, wizardVars>>

InitBridge ==
    /\ listings = <<>> /\ steps = 1
    /\ fpTie = [up |-> TRUE, low |-> TRUE, high |-> TRUE, last |-> TRUE]
    /\ NoCalls

NextBridge ==
    SendExtensionMessage \/ ExtensionResponds \/ MessageDispatched \/ TimeoutFires

SpecBridge == InitBridge /\ [][NextBridge]_vars

\* ------------------------------------------------------------------------
\* The eBay page of the research wizard: its handlers
\* ------------------------------------------------------------------------
MaxFetches == 1       \* fetch() calls of the wizard button
MaxScrapes == 1       \* scrapeData messages sent

\* a string with a lone surrogate (a high surrogate no low one follows):
\* encodeURIComponent throws a URIError on it
LoneSurrogate == "\\uD800"

\* the responses the content script posts while the eBay page is used
MaxScrapeResponses == 1

\* trimmed values typed into a search input that are not empty
SearchTerms == {"ps5", "xbox", LoneSurrogate}

\* encodeURIComponent(term) returns
WellFormed(term) == term # LoneSurrogate

\* the option labels of the checkbox filter a filters response offers
FilterValues == {"new"}

\* response.results of a successful scrape: one listing without a usable
\* price; a dated listing and a cheaper undated one; four undated listings,
\* the first far below the others
ScrapeResults ==
    {<<Listing(BadPrice, NoSold)>>,
     <<Listing(Price(20000), SoldDmy(2, "january", 2026)),
       Listing(Price(5000), NoSold)>>,
     <<Listing(Price(100), NoSold), Listing(Price(1049), NoSold),
       Listing(Price(1050), NoSold), Listing(Price(1050), NoSold)>>}

\* Math.round(x) for x = num / den >= 0, or for the double just below it
MathRound(num, den, under) ==
    LET q == num \div den
        r == num % den
    IN  IF 2 * r > den \/ (2 * r = den /\ ~under) THEN q + 1 ELSE q

\* Number(stats.avg) as avgNum: stats.avg is the text calculateStats made
\* with toFixed(2); Number('-') is NaN
TableAvgNum(tableStats) ==
    IF tableStats.nodata
    THEN [nan |-> TRUE, inf |-> FALSE, num |-> 0, den |-> 1,
          under |-> FALSE, gap |-> "none"]
    ELSE [nan |-> FALSE, inf |-> FALSE, num |-> tableStats.avg, den |-> 1,
          under |-> FALSE, gap |-> "none"]

\* avgNum: intelligentAvg !== null ? intelligentAvg : Number(stats.avg), as
\* num / den pence, NaN or Infinity
AvgNumOf(intelligentAvg, tableStats, den) ==
    IF ~intelligentAvg.null
    THEN [nan |-> intelligentAvg.nan, inf |-> intelligentAvg.inf,
          num |-> intelligentAvg.pence, den |-> den,
          under |-> intelligentAvg.under, gap |-> intelligentAvg.gap]
    ELSE TableAvgNum(tableStats)

\* avgNum for the listings `items` the page shows
AvgNum(items, clock, rounding, den) ==
    AvgNumOf(calculateIntelligentAverage(items, clock, rounding, den),
             calculateStats(items, den), den)

\* rrp = Math.round(avgNum) in currency units
RrpOf(avgNum) ==
    MathRound(avgNum.num, PencePerUnit * avgNum.den, avgNum.under)

\* the product x * 0.4 in doubles is n + 0.5 for the double x next below
\* 2.5 (n + 0.5): 0.4 is the double 0.4 (1 + 2^-54), so the product lies
\* (n + 0.5) 2^-54 - 0.4 ulp(x) from n + 0.5, and that is less than half a
\* last place of n + 0.5 (2^(e - 52) for 2^e <= n < 2^(e + 1)) where
\* 12 2^e <= 10 n + 5 < 16 2^e
NearHalf(n) ==
    /\ n >= 1
    /\ 12 * Pow2(FloorLog2(n)) <= 10 * n + 5
    /\ 10 * n + 5 < 16 * Pow2(FloorLog2(n))

\* Math.round(x * 0.4) for the double x below num / den = 2.5 (n + 0.5): n + 1
\* for the double next below it where the product is n + 0.5, else n
HalfOfferBelow(n, gap, rounding) ==
    IF NearHalf(n) /\ (gap = "last" \/ (gap = "near" /\ rounding.last))
    THEN n + 1 ELSE n

\* offer = Math.round(avgNum * 0.4) in currency units: the product of the
\* doubles avgNum and 0.4
MathRoundOffer(num, den, under, gap, rounding) ==
    LET q == (4 * num) \div (10 * den)
        r == (4 * num) % (10 * den)
    IN  IF 2 * r > 10 * den THEN q + 1
        ELSE IF 2 * r < 10 * den THEN q
        ELSE IF ~under THEN q + 1
        ELSE HalfOfferBelow(q, gap, rounding)

OfferOf(avgNum, rounding) ==
    MathRoundOffer(avgNum.num, PencePerUnit * avgNum.den, avgNum.under,
                   avgNum.gap, rounding)

\* ebayRrpNumeric / ebayOfferNumeric after `if (!isNaN(avgNum)) { ... }`;
\* Math.round(Infinity) is Infinity
RrpAfter(avgNum, before) ==
    IF avgNum.nan THEN before
    ELSE IF avgNum.inf THEN JsInfinity
    ELSE JsNum(RrpOf(avgNum))
OfferAfter(avgNum, rounding, before) ==
    IF avgNum.nan THEN before
    ELSE IF avgNum.inf THEN JsInfinity
    ELSE JsNum(OfferOf(avgNum, rounding))

\* response.results.slice(0, 20)
SliceResults(results) ==
    SubSeq(results, 1,
           IF Len(results) < RESULT_LIMIT THEN Len(results) ELSE RESULT_LIMIT)

\* ebayRrpNumeric ?? parseFloat(rrpDisplay.textContent): the display shows
\* '--' whenever the variable is null
SavedNumber(x) == IF x.kind = "null" THEN JsNaN ELSE x

\* the object saveEbayWizardState() builds from the page
Snapshot(term, filters, prices, rrp, offer, results, anomalies) ==
    [searchTerm |-> term, filters |-> filters, prices |-> prices,
     selectedOffer |-> SavedNumber(offer), rrp |-> SavedNumber(rrp),
     listings |-> IF results.set THEN results.listings ELSE <<>>,
     showAnomalies |-> anomalies]

\* saveEbayWizardState() on the page as it is
saveEbayWizardState ==
    wizardStateEbay' =
        Snapshot(searchInput, selectedFilters, priceStats, ebayRrpNumeric,
                 ebayOfferNumeric, currentEbayResults, showAnomalies)

\* the 'input' listener of the search box of the eBay page: any edit, also
\* one that leaves the trimmed value as it was or empty
InputEdited ==
    \E term \in SearchTerms \cup {""} :
        /\ page = "ebay"
        /\ searchInput' = term
        /\ IF term # wizardStateEbay.searchTerm
           THEN /\ ebayWizardStep' = 1
                /\ selectedFilters' = {}
                /\ filtersFor' = NoFilters
           ELSE UNCHANGED <<ebayWizardStep, selectedFilters, filtersFor>>
        /\ UNCHANGED <<isEbayScraping, page, fetches, nFetches, scrapes,
                       nScrapes, priceStats, ebayRrpNumeric,
                       ebayOfferNumeric, showAnomalies, ebayPriceCache,
                       currentEbayResults, wizardStateEbay, pipelineVars,
                       bridgeVars>>

\* the 'input' listener of the search term shown on the overview
OverviewEdited ==
    \E term \in SearchTerms \cup {""} :
        /\ page = "overview"
        /\ wizardStateEbay' = [wizardStateEbay EXCEPT !.searchTerm = term]
        /\ UNCHANGED <<isEbayScraping, ebayWizardStep, page, searchInput,
                       selectedFilters, filtersFor, fetches, nFetches,
                       scrapes, nScrapes, priceStats, ebayRrpNumeric,
                       ebayOfferNumeric, showAnomalies, ebayPriceCache,
                       currentEbayResults, pipelineVars, bridgeVars>>

\* resetWizardState(), called by the Restart button of the overview and
\* after a confirm: window.wizardState is as created, resetEbayAnalysis()
\* runs and the search input is emptied; the step, the filters, the flag and
\* the window globals of the results stay
resetWizardState ==
    /\ page = "overview"
    /\ wizardStateEbay' = InitialEbay
    /\ priceStats' = NoStats
    /\ ebayRrpNumeric' = JsNull
    /\ ebayOfferNumeric' = JsNull
    /\ searchInput' = ""
    /\ UNCHANGED <<isEbayScraping, ebayWizardStep, page, selectedFilters,
                   filtersFor, fetches, nFetches, scrapes, nScrapes,
                   showAnomalies, ebayPriceCache, currentEbayResults,
                   pipelineVars, bridgeVars>>

\* runEbayScrape() from resetEbayAnalysis() on, with a search term:
\* setEbayScrapingState(true), then buildEbayUrl(), whose encodeURIComponent
\* throws on a malformed term before the try is entered (the flag stays
\* set, nothing is sent); else sendExtensionMessage() with the request id it
\* draws, whose promise the scrape awaits
ScrapeStarted ==
    /\ priceStats' = NoStats
    /\ ebayRrpNumeric' = JsNull
    /\ ebayOfferNumeric' = JsNull
    /\ IF searchInput = ""
       THEN UNCHANGED <<isEbayScraping, scrapes, nScrapes, bridgeVars>>
       ELSE /\ isEbayScraping' = TRUE
            /\ IF WellFormed(searchInput)
               THEN /\ nScrapes < MaxScrapes
                    /\ scrapes' = scrapes \cup
                           {[n |-> nScrapes + 1, term |-> searchInput,
                             promise |-> Len(promises) + 1]}
                    /\ nScrapes' = nScrapes + 1
                    /\ \E requestId \in RequestIds :
                          sendExtensionMessage(requestId)
               ELSE UNCHANGED <<scrapes, nScrapes, bridgeVars>>
    /\ UNCHANGED <<ebayWizardStep, page, searchInput, selectedFilters,
                   filtersFor, fetches, nFetches, showAnomalies,
                   ebayPriceCache, currentEbayResults, wizardStateEbay,
                   pipelineVars>>

\* runEbayScrape() up to its await: nothing while a scrape is running
runEbayScrape ==
    IF isEbayScraping THEN UNCHANGED vars ELSE ScrapeStarted

\* step 1 of the 'click' listener for the search term `term`: the container
\* shows 'Loading filters...' and the filters are requested; where
\* encodeURIComponent throws, the catch shows the error text
FiltersRequested(term) ==
    /\ filtersFor' = NoFilters
    /\ IF WellFormed(term)
       THEN /\ nFetches < MaxFetches
            /\ fetches' = fetches \cup
                   {[n |-> nFetches + 1, kind |-> "filters", term |-> term]}
            /\ nFetches' = nFetches + 1
       ELSE UNCHANGED <<fetches, nFetches>>

\* the 'click' listener of the wizard button, which is disabled while
\* isEbayScraping: an alert without a term; at step 1 the filters are
\* requested; at step 2 runEbayScrape() is called
WizardButtonClicked ==
    /\ page = "ebay"
    /\ ~isEbayScraping
    /\ IF searchInput = "" THEN UNCHANGED vars
       ELSE IF ebayWizardStep = 1
       THEN /\ FiltersRequested(searchInput)
            /\ UNCHANGED <<isEbayScraping, ebayWizardStep, page, searchInput,
                           selectedFilters, scrapes, nScrapes, priceStats,
                           ebayRrpNumeric, ebayOfferNumeric, showAnomalies,
                           ebayPriceCache, currentEbayResults,
                           wizardStateEbay, pipelineVars, bridgeVars>>
       ELSE runEbayScrape

\* renderFilters(data.filters): selectedFilters is emptied, the checkboxes
\* are built, and every saved selection that has a checkbox is checked
\* again; its 'change' event runs handleFilterChange, which selects it and
\* calls saveEbayWizardState()
renderFilters ==
    /\ selectedFilters' = wizardStateEbay.filters \cap FilterValues
    /\ IF wizardStateEbay.filters \cap FilterValues # {}
       THEN wizardStateEbay' =
                Snapshot(searchInput, selectedFilters', priceStats,
                         ebayRrpNumeric, ebayOfferNumeric,
                         currentEbayResults, showAnomalies)
       ELSE UNCHANGED wizardStateEbay

\* a fetch of filters is answered.  The wizard button's request: on success
\* renderFilters() and ebayWizardStep = 2, else the error text.
\* refreshFiltersFromUrl's request: on success renderFilters(), else nothing.
FetchAnswered ==
    \E f \in fetches, ok \in BOOLEAN :
        /\ fetches' = fetches \ {f}
        /\ IF ok THEN renderFilters
           ELSE UNCHANGED <<selectedFilters, wizardStateEbay>>
        /\ IF f.kind = "filters"
           THEN /\ filtersFor' = IF ok THEN f.term ELSE NoFilters
                /\ ebayWizardStep' = IF ok THEN 2 ELSE ebayWizardStep
           ELSE /\ filtersFor' = IF ok THEN f.term ELSE filtersFor
                /\ UNCHANGED ebayWizardStep
        /\ UNCHANGED <<isEbayScraping, page, searchInput, nFetches, scrapes,
                       nScrapes, priceStats, ebayRrpNumeric,
                       ebayOfferNumeric, showAnomalies, ebayPriceCache,
                       currentEbayResults, pipelineVars, bridgeVars>>

\* handleFilterChange for a checkbox shown: its label is selected (checked)
\* or no longer, and saveEbayWizardState() is called.  A box that is checked
\* by the user was not checked, and its label not selected.
FilterChanged ==
    \E v \in FilterValues, checked \in BOOLEAN :
        /\ page = "ebay"
        /\ filtersFor # NoFilters
        /\ checked => v \notin selectedFilters
        /\ selectedFilters' = IF checked THEN selectedFilters \cup {v}
                              ELSE selectedFilters \ {v}
        /\ wizardStateEbay' =
               Snapshot(searchInput, selectedFilters', priceStats,
                        ebayRrpNumeric, ebayOfferNumeric,
                        currentEbayResults, showAnomalies)
        /\ UNCHANGED <<isEbayScraping, ebayWizardStep, page, searchInput,
                       filtersFor, fetches, nFetches, scrapes, nScrapes,
                       priceStats, ebayRrpNumeric, ebayOfferNumeric,
                       showAnomalies, ebayPriceCache, currentEbayResults,
                       pipelineVars, bridgeVars>>

\* the statistics of `shown` are written to the page and, unless avgNum is
\* NaN, its prices
ShowAnalysis(tableStats, avgNum) ==
    /\ priceStats' = tableStats
    /\ ebayRrpNumeric' = RrpAfter(avgNum, ebayRrpNumeric)
    /\ ebayOfferNumeric' = OfferAfter(avgNum, fpTie, ebayOfferNumeric)

\* the success branch of runEbayScrape for the listings kept of the response
ScrapeShown(found, validListings, cleanedListings) ==
    /\ ebayPriceCache' = Holding(validListings)
    /\ currentEbayResults' = Holding(found)
    /\ isAnomalous' = <<MarkListings(found, fpTie, steps)>>
    /\ ShowAnalysis(calculateStats(cleanedListings, steps),
                    AvgNum(cleanedListings, now, fpTie, steps))

\* runEbayScrape() after its await, once the promise is resolved with a
\* response of response.success and response.results = results: the
\* listings are cut, filtered, cached, cleaned and flagged, the statistics
\* and prices of the cleaned listings are shown, refreshFiltersFromUrl()
\* starts, and the finally block runs
ScrapeAnswered(s, results) ==
    /\ promises'[s.promise].state = "resolved"
    /\ scrapes' = scrapes \ {s}
    /\ ScrapeShown(SliceResults(results),
                   ValidListings(SliceResults(results)),
                   removeOutliers(ValidListings(SliceResults(results)),
                                  fpTie, steps))
    /\ filtersFor' = NoFilters
    /\ fetches' = fetches \cup
           {[n |-> MaxFetches + s.n, kind |-> "refresh", term |-> s.term]}
    /\ isEbayScraping' = FALSE
    /\ wizardStateEbay' =
           Snapshot(searchInput, selectedFilters, priceStats',
                    ebayRrpNumeric', ebayOfferNumeric', currentEbayResults',
                    showAnomalies)
    /\ UNCHANGED <<ebayWizardStep, page, searchInput, selectedFilters,
                   nFetches, nScrapes, showAnomalies, listings, steps,
                   fpTie, now, cleaned, estimates, stats, histogram>>

\* runEbayScrape() after its await otherwise: the promise is resolved with a
\* response whose success is not true (the alert of the else branch), or it
\* is rejected by an error response or by its timer (the catch); the
\* finally block runs
ScrapeFailed(s) ==
    /\ scrapes' = scrapes \ {s}
    /\ isEbayScraping' = FALSE
    /\ saveEbayWizardState
    /\ UNCHANGED <<ebayWizardStep, page, searchInput, selectedFilters,
                   filtersFor, fetches, nFetches, nScrapes, priceStats,
                   ebayRrpNumeric, ebayOfferNumeric, showAnomalies,
                   ebayPriceCache, currentEbayResults, pipelineVars>>

\* runEbayScrape() of scrape s after its await, its promise settled by the
\* message `data`
ScrapeContinues(s, data) ==
    IF ~data.error /\ data.response.success
    THEN ScrapeAnswered(s, data.response.results)
    ELSE ScrapeFailed(s)

\* the scrapes whose promise the message `data` settles
SettledBy(data) ==
    {s \in scrapes : /\ promises[s.promise].listening
                     /\ Matches(data, promises[s.promise].requestId)}

\* the content script posts the response to a scrape request it has
\* received (one whose message event has been dispatched): an error, or a
\* response without success or with one of ScrapeResults
ScrapeResponsePosted ==
    \E j \in 1..Len(events), error \in BOOLEAN,
       response \in {NoSuccess} \cup {Success(r) : r \in ScrapeResults} :
        /\ events[j].kind = "message"
        /\ events[j].type = "EXTENSION_MESSAGE"
        /\ error => response = NoSuccess
        /\ ResponsesSoFar < MaxScrapeResponses
        /\ PostResponse(events[j].requestId, error, response)
        /\ UNCHANGED <<promises, events, pipelineVars, wizardVars>>

\* a message task of the window: the oldest message posted is dispatched to
\* the listeners; where it settles the promise of a scrape, runEbayScrape()
\* goes on after its await before any other task runs
WindowMessage ==
    /\ DispatchMessage
    /\ IF SettledBy(Head(posted)) = {}
       THEN UNCHANGED <<pipelineVars, wizardVars>>
       ELSE \E s \in SettledBy(Head(posted)) :
                ScrapeContinues(s, Head(posted))

\* a timer task: the 60 s of promise i have passed, whether the promise is
\* settled or not; where that rejects the promise of a scrape,
\* runEbayScrape() goes on in its catch
TimerFired ==
    \E i \in DOMAIN promises :
        /\ promises[i].timer
        /\ TimerCallback(i)
        /\ IF promises[i].state = "pending"
                /\ \E s \in scrapes : s.promise = i
           THEN \E s \in scrapes : s.promise = i /\ ScrapeFailed(s)
           ELSE UNCHANGED <<pipelineVars, wizardVars>>

\* the scrape goes on after its await, the promise being resolved with a
\* response that held `listings`
ScrapeSucceeds ==
    \E s \in scrapes :
        /\ UNCHANGED bridgeVars
        /\ ScrapeAnswered(s, listings)

\* the listings the 'change' listener of #ebayShowAnomalies works on
ListingsShown(rawListings, checked) ==
    IF checked THEN rawListings ELSE removeOutliers(rawListings, fpTie, steps)

\* the 'change' listener of #ebayShowAnomalies: without a cache nothing but
\* the box changes; else the statistics and prices of the raw listings
\* (checked) or of the cleaned ones are shown and the state is saved
AnomaliesToggled ==
    /\ page = "ebay"
    /\ showAnomalies' = ~showAnomalies
    /\ IF ~ebayPriceCache.set
       THEN UNCHANGED <<priceStats, ebayRrpNumeric, ebayOfferNumeric,
                        wizardStateEbay>>
       ELSE /\ ShowAnalysis(
                  calculateStats(ListingsShown(ebayPriceCache.listings,
                                               ~showAnomalies), steps),
                  AvgNum(ListingsShown(ebayPriceCache.listings,
                                       ~showAnomalies), now, fpTie, steps))
            /\ wizardStateEbay' =
                   Snapshot(searchInput, selectedFilters, priceStats',
                            ebayRrpNumeric', ebayOfferNumeric',
                            currentEbayResults, ~showAnomalies)
    /\ UNCHANGED <<isEbayScraping, ebayWizardStep, page, searchInput,
                   selectedFilters, filtersFor, fetches, nFetches, scrapes,
                   nScrapes, ebayPriceCache, currentEbayResults,
                   pipelineVars, bridgeVars>>

\* the 'change' listener of the checkboxes Sold, UK only and Used:
\* saveEbayWizardState()
StateSaved ==
    /\ page = "ebay"
    /\ saveEbayWizardState
    /\ UNCHANGED <<isEbayScraping, ebayWizardStep, page, searchInput,
                   selectedFilters, filtersFor, fetches, nFetches, scrapes,
                   nScrapes, priceStats, ebayRrpNumeric, ebayOfferNumeric,
                   showAnomalies, ebayPriceCache, currentEbayResults,
                   pipelineVars, bridgeVars>>

\* the 'click' listener of the Back button: saveEbayWizardState() and the
\* overview is shown
BackClicked ==
    /\ page = "ebay"
    /\ saveEbayWizardState
    /\ page' = "overview"
    /\ UNCHANGED <<isEbayScraping, ebayWizardStep, searchInput,
                   selectedFilters, filtersFor, fetches, nFetches, scrapes,
                   nScrapes, priceStats, ebayRrpNumeric, ebayOfferNumeric,
                   showAnomalies, ebayPriceCache, currentEbayResults,
                   pipelineVars, bridgeVars>>

\* window.ResearchWizard.showOverview() called without
\* saveEbayWizardState(): by openWizard(), the 'click' listener of
\* #researchWizard once the wizard was closed (close button, backdrop or
\* Escape, which change nothing here) on whatever page, and by the 'click'
\* listener of the Complete button #ebayApplyBtn, enabled while results are
\* shown on the eBay page. The overview is rendered from window.wizardState
\* and shown; nothing of the eBay page is saved or reset.
showOverview ==
    /\ page' = "overview"
    /\ UNCHANGED <<isEbayScraping, ebayWizardStep, searchInput,
                   selectedFilters, filtersFor, fetches, nFetches, scrapes,
                   nScrapes, priceStats, ebayRrpNumeric, ebayOfferNumeric,
                   showAnomalies, ebayPriceCache, currentEbayResults,
                   wizardStateEbay, pipelineVars, bridgeVars>>

\* restoreEbayWizardState(), a task of its own (no scrape is between the
\* settling of its promise and its continuation): the input, the selected
\* filters and the box are set from the saved state; without saved listings
\* and with a term the step is 1 and the wizard button is clicked (step 1 of
\* its listener runs unless the button is disabled); the saved statistics
\* and prices are shown; saved listings become the current results, are
\* cached and flagged
restoreEbayWizardState ==
    LET state == wizardStateEbay
        term == IF state.searchTerm = NoTerm THEN "" ELSE state.searchTerm
        autoRun == state.listings = <<>> /\ term # ""
        clicked == autoRun /\ ~isEbayScraping
    IN  /\ \A s \in scrapes : promises[s.promise].state = "pending"
        /\ searchInput' = term
        /\ selectedFilters' = state.filters
        /\ showAnomalies' = state.showAnomalies
        /\ ebayWizardStep' = IF autoRun THEN 1 ELSE ebayWizardStep
        /\ IF clicked THEN FiltersRequested(term)
           ELSE UNCHANGED <<filtersFor, fetches, nFetches>>
        /\ priceStats' = state.prices
        /\ ebayRrpNumeric' = state.rrp
        /\ ebayOfferNumeric' = state.selectedOffer
        /\ IF state.listings # <<>>
           THEN /\ currentEbayResults' = Holding(state.listings)
                /\ ebayPriceCache' = Holding(ValidListings(state.listings))
                /\ isAnomalous' = <<MarkRestored(state.listings, fpTie, steps)>>
           ELSE UNCHANGED <<currentEbayResults, ebayPriceCache, isAnomalous>>
        /\ UNCHANGED <<isEbayScraping, scrapes, nScrapes, wizardStateEbay,
                       listings, steps, fpTie, now, cleaned, estimates,
                       stats, histogram, bridgeVars>>

\* window.restoreEbayWizardState() called on the page shown
StateRestored ==
    /\ restoreEbayWizardState
    /\ UNCHANGED page

\* showPage('.rw-page-ebay'), the 'click' listener of the eBay button of the
\* overview: the eBay page is shown and restoreEbayWizardState() is called
EbayPageShown ==
    /\ page = "overview"
    /\ page' = "ebay"
    /\ restoreEbayWizardState

InitWizard ==
    /\ listings = <<>> /\ steps = 1
    /\ fpTie = [up |-> TRUE, low |-> TRUE, high |-> TRUE, last |-> TRUE]
    /\ NoCalls

NextWizard ==
    \/ InputEdited
    \/ OverviewEdited
    \/ resetWizardState
    \/ WizardButtonClicked
    \/ FetchAnswered
    \/ FilterChanged
    \/ ScrapeResponsePosted
    \/ WindowMessage
    \/ TimerFired
    \/ AnomaliesToggled
    \/ StateSaved
    \/ BackClicked
    \/ showOverview
    \/ EbayPageShown

SpecWizard == InitWizard /\ [][NextWizard]_vars

\* the outlier filter called on an input, and the page answered with it
NextOutliers == CallRemoveOutliers \/ ScrapeSucceeds
NextMarking == CallRemoveOutliers \/ ScrapeSucceeds \/ StateRestored

SpecOutliers == InitOutliers /\ [][NextOutliers]_vars
SpecMarking == InitMarking /\ [][NextMarking]_vars

\* ------------------------------------------------------------------------
\* Properties of calculateIntelligentAverage (SpecEstimator)
\* ------------------------------------------------------------------------
\* the listings with a price > 0 and a parseable sold date: parseSoldDate
\* returns a date, and it is one
DatedIdx ==
    {i \in 1..Len(listings) :
        /\ IsValidPrice(NumberOf(listings[i].price))
        /\ parseSoldDate(listings[i].sold).ok
        /\ ~parseSoldDate(listings[i].sold).nan}
NDated == Cardinality(DatedIdx)

\* the listings at the indexes of S, in the input's order
RECURSIVE ListingsAt(_, _)
ListingsAt(S, i) ==
    IF i > Len(listings) THEN <<>>
    ELSE (IF i \in S THEN <<listings[i]>> ELSE <<>>) \o ListingsAt(S, i + 1)

\* the input without its listings of non-numeric, zero or negative price,
\* and without those and the listings of missing or unparseable sale date
OnlyDated == ListingsAt(DatedIdx, 1)
PriceAt(i) == NumberOf(listings[i].price).val
DateAt(i) == parseSoldDate(listings[i].sold).t
HasValidPrice == \E i \in 1..Len(listings) : IsValidPrice(NumberOf(listings[i].price))

RECURSIVE SumPrices(_)
SumPrices(S) ==
    IF S = {} THEN 0
    ELSE LET i == CHOOSE j \in S : TRUE IN PriceAt(i) + SumPrices(S \ {i})

\* the sum over S of log(price) - lnG
RECURSIVE SumLnOver(_, _)
SumLnOver(S, lnG) ==
    IF S = {} THEN 0
    ELSE LET i == CHOOSE j \in S : TRUE
         IN  Ln(PriceAt(i)) - lnG + SumLnOver(S \ {i}, lnG)

RECURSIVE ProductPrices(_)
ProductPrices(S) ==
    IF S = {} THEN 1
    ELSE LET i == CHOOSE j \in S : TRUE IN PriceAt(i) * ProductPrices(S \ {i})

RECURSIVE Power(_, _)
Power(x, k) == IF k = 0 THEN 1 ELSE x * Power(x, k - 1)

\* C1 as stated: the estimate is null only when no listing has a price > 0,
\* and is a number once one has.
C1_AsStated ==
    \A k \in DOMAIN estimates : estimates[k].est.null <=> ~HasValidPrice

\* the listings sold last
NewestIdx == {i \in DatedIdx : \A j \in DatedIdx : DateAt(j) <= DateAt(i)}

\* price_m < G, decided exactly: price_m^n < the product of the n prices
\* (one factor price_m taken off both sides)
BelowCenter(m) ==
    Power(PriceAt(m), NDated - 1) < ProductPrices(DatedIdx \ {m})
AtCenter(m) ==
    Power(PriceAt(m), NDated - 1) = ProductPrices(DatedIdx \ {m})

\* the geometric center of the n prices lies from g to g + 1 steps, within
\* the resolution of the logs
CenterWithin(over, step, n) ==
    /\ over >= -(LogStep * n)
    /\ over - n * step <= LogStep * n

IsCenter(g) ==
    CenterWithin(SumLnOver(DatedIdx, Ln(g)), Ln(g + 1) - Ln(g), NDated)

\* C2 as stated: with 2 or 3 dated listings the estimate is the price of the
\* listing sold last when that price is strictly below the geometric center
\* G of all the prices, and (G + that price) / 2 otherwise (G lying from g to
\* g + 1 steps, the estimate is the step nearest to a number from
\* (g + price) / 2 to (g + 1 + price) / 2); where the price equals G both
\* are that price.
C2_AsStated ==
    \A k \in DOMAIN estimates :
        NDated \in {2, 3} =>
            \E m \in NewestIdx :
                LET g == GeometricCenter(ValidDated(OnlyDated)).q
                    e == estimates[k].est
                IN  /\ ~e.null
                    /\ IF BelowCenter(m) THEN e = Num(PriceAt(m))
                       ELSE IF AtCenter(m) THEN e.pence = PriceAt(m)
                       ELSE /\ IsCenter(g)
                            /\ 2 * e.pence - (g + PriceAt(m)) \in 0..2

\* C3 as stated: with no dated listing the estimate is null; with one it is
\* that listing's price.
C3_AsStated ==
    \A k \in DOMAIN estimates :
        /\ NDated = 0 => estimates[k].est.null
        /\ NDated = 1 =>
              estimates[k].est = Num(PriceAt(CHOOSE i \in DatedIdx : TRUE))

\* the sale dates in ascending order
DatesAscending ==
    LET valid == ValidDated(OnlyDated)
    IN  SortNum([i \in 1..Len(valid) |-> valid[i].date])

\* the consecutive pairs more than 0.25 days (6 hours) apart
PairsAboveQuarterDay ==
    {i \in 2..NDated : DatesAscending[i] - DatesAscending[i - 1] > 6}

\* C4 as stated: with 4 or more dated listings a consecutive pair counts for
\* the volatility only if it is more than 0.25 days apart, and when no pair
\* is the estimate is the plain mean of all their prices.
C4_AsStated ==
    \A k \in DOMAIN estimates :
        NDated >= 4 =>
            /\ Len(LogPriceDiffs(SortByDate(ValidDated(listings)), 2))
                  = Cardinality(PairsAboveQuarterDay)
            /\ PairsAboveQuarterDay = {} =>
                  /\ ~estimates[k].est.null
                  /\ 2 * Abs(estimates[k].est.pence * NDated
                               - SumPrices(DatedIdx)) <= NDated

\* C5 as stated: every permutation of the listings gets the same estimate.
C5_AnyOrder ==
    \A k \in DOMAIN estimates :
        \A perm \in Permutations(1..Len(listings)) :
            calculateIntelligentAverage(
                [i \in 1..Len(listings) |-> listings[perm[i]]], estimates[k].now,
                fpTie, steps)
              = estimates[k].est

\* C6 as stated: calls at different moments return the same estimate.
C6_SameAtAnyMoment ==
    \A j, k \in DOMAIN estimates : estimates[j].est = estimates[k].est

\* ------------------------------------------------------------------------
\* Properties of removeOutliers and of the marking (SpecOutliers)
\* ------------------------------------------------------------------------
\* the listings with a price > 0
PricedIdx ==
    {i \in 1..Len(listings) : IsValidPrice(NumberOf(listings[i].price))}
NPriced == Cardinality(PricedIdx)

\* the k-th smallest of the valid prices
KthSmallest(k) ==
    CHOOSE v \in {PriceAt(i) : i \in PricedIdx} :
        /\ Cardinality({i \in PricedIdx : PriceAt(i) < v}) < k
        /\ Cardinality({i \in PricedIdx : PriceAt(i) <= v}) >= k

\* twice the median of the valid prices
MedianTwice == KthSmallest((NPriced + 1) \div 2) + KthSmallest(NPriced \div 2 + 1)

\* price < 0.25 * median, price = 0.25 * median
BelowFloor(i) == PriceAt(i) * 8 < MedianTwice
AtFloor(i) == PriceAt(i) * 8 = MedianTwice

\* the valid listings at or above the floor
PassFloorIdx == {i \in PricedIdx : ~BelowFloor(i)}

InCleaned(i) == \E j \in DOMAIN cleaned[1] : cleaned[1][j] = listings[i]

\* C7 as stated: with fewer than 4 listings of a price > 0, removeOutliers
\* returns its input as it is and the scrape marks no listing anomalous.
C7_AsStated ==
    NPriced < 4 =>
        /\ cleaned # <<>> => cleaned[1] = listings
        /\ isAnomalous # <<>> =>
              \A i \in DOMAIN isAnomalous[1] : ~isAnomalous[1][i]

\* C8 as stated: with 4 or more valid prices no listing priced below
\* 0.25 * median is in the result, and a listing priced at 0.25 * median
\* passes the floor (and is in the result when fewer than 4 listings pass
\* it).
C8_AsStated ==
    cleaned # <<>> /\ NPriced >= 4 =>
        LET sem == SemanticFiltered(ValidPrices(listings), steps)
        IN  /\ \A i \in PricedIdx : BelowFloor(i) => ~InCleaned(i)
            /\ \A i \in PricedIdx :
                  AtFloor(i) =>
                      /\ \E k \in DOMAIN sem : sem[k] = PriceAt(i)
                      /\ Cardinality(PassFloorIdx) < 4 => InCleaned(i)

\* C9: when 4 or more prices are valid and fewer than 4 pass the floor, the
\* result is exactly the listings that pass the floor, in the input's order.
C9_FloorFallback ==
    cleaned # <<>> /\ NPriced >= 4 /\ Cardinality(PassFloorIdx) < 4 =>
        cleaned[1] = ListingsAt(PassFloorIdx, 1)

C9_Witness ==
    /\ cleaned # <<>> /\ NPriced >= 4
    /\ Cardinality(PassFloorIdx) = 3
    /\ NPriced < Len(listings)
    /\ \E i, j \in PassFloorIdx : PriceAt(i) # PriceAt(j)
    /\ cleaned[1] = ListingsAt(PassFloorIdx, 1)

\* the log-price of listing i lies in [Q1 - 1.5 IQR, Q3 + 3.0 IQR], Q1 and Q3
\* the percentiles of the logs of the prices that pass the floor (all times 8)
\* (log-prices in units of 1e-7, counted from that of the lowest valid price)
LogPriceAt(i) == RDiv(Ln(PriceAt(i)) - Ln(KthSmallest(1)), LogStep)

InClosedInterval(i) ==
    LET pass == ListingsAt(PassFloorIdx, 1)
        logs == SortNum([k \in 1..Len(pass) |->
                    RDiv(Ln(NumberOf(pass[k].price).val) - Ln(KthSmallest(1)),
                         LogStep)])
        q1x4 == Percentile4(logs, 1)
        q3x4 == Percentile4(logs, 3)
        iqr4 == q3x4 - q1x4
    IN  /\ 8 * LogPriceAt(i) >= 2 * q1x4 - 3 * iqr4
        /\ 8 * LogPriceAt(i) <= 2 * q3x4 + 6 * iqr4

\* C10 as stated: when 4 or more listings pass the floor, a listing that
\* passed it is in the result if and only if its log-price lies in the closed
\* interval [Q1 - 1.5 IQR, Q3 + 3.0 IQR].
C10_AsStated ==
    cleaned # <<>> /\ Cardinality(PassFloorIdx) >= 4 =>
        \A i \in PassFloorIdx : InCleaned(i) <=> InClosedInterval(i)

\* ------------------------------------------------------------------------
\* Properties of the marking (SpecMarking) and of identical prices
\* ------------------------------------------------------------------------
\* the listings that carry a flag: the first RESULT_LIMIT of a response, all
\* the listings of a restored state
Marked == SubSeq(listings, 1, Len(isAnomalous[1]))

\* what removeOutliers returned to the scrape or the restore
Accepted == removeOutliers(ValidListings(Marked), fpTie, steps)

InAccepted(i) == \E j \in DOMAIN Accepted : Accepted[j] = listings[i]

\* C11 as stated: after a scrape or a restore a listing is marked anomalous
\* exactly when it is not among the listings removeOutliers returned.
C11_AsStated ==
    isAnomalous # <<>> =>
        \A i \in DOMAIN isAnomalous[1] : isAnomalous[1][i] <=> ~InAccepted(i)

\* C12 as stated: after a scrape or a restore no listing of a non-numeric,
\* zero or negative price is marked anomalous.
C12_AsStated ==
    isAnomalous # <<>> =>
        \A i \in DOMAIN isAnomalous[1] :
            ~IsValidPrice(NumberOf(listings[i].price)) => ~isAnomalous[1][i]

AllPricesIdentical ==
    /\ NPriced >= 1
    /\ \A i, j \in PricedIdx : PriceAt(i) = PriceAt(j)

\* C13 as stated: when all the valid prices are the same, removeOutliers
\* excludes no listing: what it returns is the input.
C13_AsStated ==
    cleaned # <<>> /\ AllPricesIdentical => cleaned[1] = listings

\* C13 amended: when all the valid prices are the same, removeOutliers keeps
\* every listing of a valid price, in the input's order: it returns the whole
\* input when fewer than 4 prices are valid and the listings of a valid price
\* otherwise.
C13_IdenticalPrices ==
    cleaned # <<>> /\ AllPricesIdentical =>
        /\ \A i \in PricedIdx : InCleaned(i)
        /\ cleaned[1] = IF NPriced < 4 THEN listings
                        ELSE ListingsAt(PricedIdx, 1)

\* C13 witness: removeOutliers has returned the four or more listings of one
\* valid price, in order, of an input that holds a listing without one
C13_Witness ==
    /\ cleaned # <<>> /\ AllPricesIdentical
    /\ NPriced >= 4 /\ NPriced < Len(listings)
    /\ cleaned[1] = ListingsAt(PricedIdx, 1)

\* ------------------------------------------------------------------------
\* Properties of calculateStats (SpecStats)
\* ------------------------------------------------------------------------
\* out pence is a / b pence rounded to the nearest penny (either penny when
\* a / b is midway between two)
NearestPenny(out, a, b) == 2 * Abs(out * b - a) <= b

\* C14: calculateStats on listings none of which has a usable price (an
\* empty list, or prices that are all non-numeric, zero or negative) returns
\* '-' for min, avg, median and mode.
C14_NoUsablePrice ==
    stats # <<>> /\ NPriced = 0 => stats[1] = NoStats

C14_Witness ==
    /\ stats # <<>>
    /\ Len(listings) >= 2
    /\ \E i \in DOMAIN listings : NumberOf(listings[i].price).nan
    /\ \E i \in DOMAIN listings : PriceAt(i) < 0
    /\ NPriced = 0
    /\ stats[1] = NoStats

\* C15: with at least one usable price, min is the smallest valid price,
\* avg is the sum of the valid prices over their count and median is the
\* middle one (odd count) or the mean of the two middle ones (even count),
\* each computed on the prices as given and rounded to the penny only in
\* the value returned.
C15_MinAvgMedian ==
    stats # <<>> /\ NPriced >= 1 =>
        /\ ~stats[1].nodata
        /\ NearestPenny(stats[1].min, KthSmallest(1), steps)
        /\ NearestPenny(stats[1].avg, SumPrices(PricedIdx), NPriced * steps)
        /\ NearestPenny(stats[1].median, MedianTwice, 2 * steps)

\* an even count with two different middle prices, and an average and a
\* median that are no whole number of pence
C15_Witness ==
    /\ stats # <<>>
    /\ NPriced = 4 /\ NPriced < Len(listings)
    /\ KthSmallest(2) # KthSmallest(3)
    /\ SumPrices(PricedIdx) % (NPriced * steps) # 0
    /\ MedianTwice % (2 * steps) # 0
    /\ NearestPenny(stats[1].avg, SumPrices(PricedIdx), NPriced * steps)
    /\ NearestPenny(stats[1].median, MedianTwice, 2 * steps)

\* the number of valid listings of price v
Frequency(v) == Cardinality({i \in PricedIdx : PriceAt(i) = v})

\* the smallest of the valid prices of the highest frequency
SmallestMostFrequent ==
    CHOOSE v \in {PriceAt(i) : i \in PricedIdx} :
        \A i \in PricedIdx :
            \/ Frequency(PriceAt(i)) < Frequency(v)
            \/ Frequency(PriceAt(i)) = Frequency(v) /\ v <= PriceAt(i)

\* C16: mode is the valid price of the highest frequency and, when several
\* prices share the highest frequency (all of frequency 1 included), the
\* smallest of them.
C16_Mode ==
    stats # <<>> /\ NPriced >= 1 =>
        stats[1].mode = PriceFixed2(SmallestMostFrequent, steps)

\* two prices share the highest frequency 2 and a smaller price has
\* frequency 1
C16_Witness ==
    /\ stats # <<>>
    /\ NPriced = 5
    /\ \E i, j \in PricedIdx :
          /\ PriceAt(i) < PriceAt(j)
          /\ Frequency(PriceAt(i)) = 2 /\ Frequency(PriceAt(j)) = 2
          /\ KthSmallest(1) < PriceAt(i)
          /\ stats[1].mode = PriceFixed2(PriceAt(i), steps)
          /\ stats[1].mode # stats[1].min

\* ------------------------------------------------------------------------
\* Properties of generateHistogramData (SpecStats)
\* ------------------------------------------------------------------------
Bins == histogram[1].bins
Frequencies == histogram[1].frequencies
NBins == Len(histogram[1].bins)
MinPrice == KthSmallest(1)
MaxPrice == KthSmallest(NPriced)

\* C17 as stated: for a non-empty set of positive prices the frequencies
\* of generateHistogramData sum to the number of prices.
C17_AsStated ==
    histogram # <<>> /\ NPriced >= 1 => SumSeq(Frequencies) = NPriced

\* C18 as stated: for a non-empty set of positive prices there are bins,
\* each binWidth wide and starting where the one before ends, the first
\* starts at floor(min / binWidth) * binWidth and the last ends at max or
\* above.
C18_AsStated ==
    histogram # <<>> /\ NPriced >= 1 =>
        /\ NBins >= 1
        /\ \A i \in 1..NBins : Bins[i].end - Bins[i].start = histogram[1].binWidth
        /\ \A i \in 1..(NBins - 1) : Bins[i + 1].start = Bins[i].end
        /\ Bins[1].start =
              (MinPrice \div histogram[1].binWidth) * histogram[1].binWidth
        /\ Bins[NBins].end >= MaxPrice

\* C19: when the highest price is the upper boundary of the last bin, the
\* last bin counts it (its count is that of the prices from its start up
\* to and including its end), no bin starts at that boundary, and no price
\* is left uncounted.
C19_UpperBoundary ==
    histogram # <<>> /\ NPriced >= 1 /\ NBins >= 1
                     /\ MaxPrice = Bins[NBins].end =>
        /\ Frequencies[NBins] =
              Cardinality({i \in PricedIdx : /\ PriceAt(i) >= Bins[NBins].start
                                             /\ PriceAt(i) <= Bins[NBins].end})
        /\ \A i \in 1..NBins : Bins[i].start < MaxPrice
        /\ SumSeq(Frequencies) = NPriced

\* several bins, the highest price is on the end of the last one, two
\* listings have it and both are counted there
C19_Witness ==
    /\ histogram # <<>> /\ NPriced >= 3
    /\ NBins >= 2
    /\ MaxPrice = Bins[NBins].end
    /\ Frequency(MaxPrice) = 2
    /\ Frequencies[NBins] = 2
    /\ SumSeq(Frequencies) = NPriced

\* ------------------------------------------------------------------------
\* Malformed listings (SpecStats)
\* ------------------------------------------------------------------------
\* the input without its listings of non-numeric, zero or negative price
OnlyPriced == ListingsAt(PricedIdx, 1)

\* C20 as stated: the listings of non-numeric, zero or negative price (and,
\* for the estimator, of missing or unparseable sale date) change no result:
\* each of calculateStats, generateHistogramData and
\* calculateIntelligentAverage returns on the input what it returns on the
\* input without them.
C20_AsStated ==
    [][/\ stats' # stats =>
             stats'[1] = calculateStats(OnlyPriced, steps)
       /\ histogram' # histogram =>
             histogram'[1] = generateHistogramData(OnlyPriced, fpTie, steps)
       /\ estimates' # estimates =>
             estimates'[Len(estimates')].est =
                 calculateIntelligentAverage(OnlyDated, now, fpTie, steps)]_vars

\* ------------------------------------------------------------------------
\* The input of the four functions (SpecFrame)
\* ------------------------------------------------------------------------
\* C21: a call of removeOutliers, calculateStats, calculateIntelligentAverage
\* or generateHistogramData leaves its input as it was (same length, same
\* order, same listings, same flags on them) and writes nothing but its
\* result: the module-level variables of the page, the window globals, the
\* bridge, the price unit, the clock and the results of the other functions
\* are as before.
C21_InputUntouched ==
    [][/\ listings' = listings
       /\ isAnomalous' = isAnomalous
       /\ UNCHANGED wizardVars
       /\ UNCHANGED bridgeVars
       /\ steps' = steps /\ now' = now
       /\ Cardinality({r \in {"cleaned", "estimates", "stats", "histogram"} :
             \/ r = "cleaned" /\ cleaned' # cleaned
             \/ r = "estimates" /\ estimates' # estimates
             \/ r = "stats" /\ stats' # stats
             \/ r = "histogram" /\ histogram' # histogram}) = 1]_vars

\* C21 witness: the four functions have all returned on an input of four
\* listings in no order of price or date, every one of which they sorted a
\* copy of: the prices, the prices above the floor and the dated listings
C21_Witness ==
    /\ cleaned # <<>> /\ stats # <<>> /\ histogram # <<>>
    /\ Len(estimates) = MaxCalls
    /\ Len(listings) = 4
    /\ listings # SortByPrice(listings)
    /\ calculateStatsArrays(listings)["sorted"] # ValidPrices(listings)
    /\ generateHistogramDataArrays(listings)["binWidthSorted"]
          # ValidPrices(listings)
    /\ "pairs" \in DOMAIN removeOutliersArrays(listings, steps)
    /\ removeOutliersArrays(listings, steps)["sortedLinear"]
          # ValidPrices(listings)
    /\ calculateIntelligentAverageArrays(listings)["validListings"]
          # ValidDated(listings)
    /\ ~stats[1].nodata /\ ~estimates[1].est.null

\* ------------------------------------------------------------------------
\* removeOutliers never empties its input (SpecOutliers)
\* ------------------------------------------------------------------------
\* C23: on an input with at least one listing of positive price,
\* removeOutliers returns at least one listing of positive price, so
\* calculateStats of what it returns is not the no-data result.
C23_NeverEmpty ==
    cleaned # <<>> /\ NPriced >= 1 =>
        /\ Len(cleaned[1]) >= 1
        /\ \E i \in PricedIdx : InCleaned(i)
        /\ ~calculateStats(cleaned[1], steps).nodata

\* the floor dropped a listing, the log-space bounds dropped another, and
\* listings are left
C23_Witness ==
    /\ cleaned # <<>> /\ NPriced = 5
    /\ \E i \in PricedIdx : BelowFloor(i)
    /\ \E i \in PassFloorIdx : ~InCleaned(i)
    /\ Len(cleaned[1]) >= 1
    /\ ~calculateStats(cleaned[1], steps).nodata

\* ------------------------------------------------------------------------
\* The range of the estimate
\* ------------------------------------------------------------------------
LowestDated == CHOOSE v \in {PriceAt(i) : i \in DatedIdx} :
                   \A i \in DatedIdx : v <= PriceAt(i)
HighestDated == CHOOSE v \in {PriceAt(i) : i \in DatedIdx} :
                    \A i \in DatedIdx : v >= PriceAt(i)

\* the estimate e is a number of at least, of at most v
EstAtLeast(e, v) == ~e.null /\ (e.pence > v \/ (e.pence = v /\ ~e.under))
EstAtMost(e, v) == ~e.null /\ e.pence <= v

\* C24 as stated (SpecStats): with 2 or 3 dated listings the estimate is at
\* most the price of a most recently sold listing and at least the lowest
\* of the prices.
C24_AsStated ==
    \A k \in DOMAIN estimates :
        NDated \in {2, 3} =>
            /\ \E m \in NewestIdx : EstAtMost(estimates[k].est, PriceAt(m))
            /\ EstAtLeast(estimates[k].est, LowestDated)

\* C25 as stated (SpecEstimator): with 4 or more dated listings the
\* estimate is a number from the lowest to the highest of their prices.
C25_AsStated ==
    \A k \in DOMAIN estimates :
        NDated >= 4 =>
            /\ EstAtLeast(estimates[k].est, LowestDated)
            /\ EstAtMost(estimates[k].est, HighestDated)

\* ------------------------------------------------------------------------
\* Properties of sendExtensionMessage (SpecBridge)
\* ------------------------------------------------------------------------
\* the events after promise i was created that concern it: a response that
\* carries its request id, or the expiry of its own timer
ConcernsPromise(i) ==
    {j \in (promises[i].born + 1)..Len(events) :
        \/ /\ events[j].kind = "message"
           /\ events[j].type = "EXTENSION_RESPONSE"
           /\ events[j].requestId = promises[i].requestId
        \/ /\ events[j].kind = "timeout"
           /\ events[j].promise = i}

FirstOf(S) == CHOOSE j \in S : \A k \in S : j <= k

\* what the first event that concerns promise i makes of it
OutcomeOfFirst(i) ==
    IF ConcernsPromise(i) = {} THEN "pending"
    ELSE LET e == events[FirstOf(ConcernsPromise(i))]
         IN  IF e.kind = "timeout" THEN "timeout"
             ELSE IF e.error THEN "rejected" ELSE "resolved"

\* C30: every promise of sendExtensionMessage is pending until the first
\* EXTENSION_RESPONSE with its request id or the expiry of its timer,
\* whichever comes first, and from then on is what that event made of it
\* (resolved, rejected with the response's error, rejected with the timeout):
\* responses for other request ids, later responses and a later timeout
\* change nothing.
C30_SettlesOnce ==
    \A i \in DOMAIN promises : promises[i].state = OutcomeOfFirst(i)

\* C30 witness: a promise resolved by its response after a response for
\* another request id had been dispatched to its listener, with its timer
\* expired later (reject called on the settled promise)
C30_Witness ==
    \E i \in DOMAIN promises :
        /\ promises[i].state = "resolved"
        /\ promises[i].calls = 2
        /\ ~promises[i].timer
        /\ \E j \in (promises[i].born + 1)..Len(events) :
              /\ events[j].kind = "message"
              /\ events[j].type = "EXTENSION_RESPONSE"
              /\ events[j].requestId # promises[i].requestId
              /\ j < FirstOf(ConcernsPromise(i))

\* ------------------------------------------------------------------------
\* Properties of the eBay page (SpecWizard)
\* ------------------------------------------------------------------------
\* a step in which a scrape ends with response.success: the request is no
\* longer awaited and refreshFiltersFromUrl() has started its fetch
ScrapeSucceeded ==
    /\ Cardinality(scrapes') < Cardinality(scrapes)
    /\ fetches' # fetches

\* the listings a successful scrape has just cleaned
JustCleaned == removeOutliers(ebayPriceCache'.listings, fpTie, steps)

\* the prices the page shows after the step are Math.round(E) and
\* Math.round(0.4 E) for E = num / den pence, and the offer is no more than
\* the RRP
PricedFrom(num, den, under) ==
    /\ ebayRrpNumeric' = JsNum(MathRound(num, PencePerUnit * den, under))
    /\ ebayOfferNumeric' = JsNum(MathRound(4 * num, 10 * PencePerUnit * den, under))
    /\ ebayOfferNumeric'.val <= ebayRrpNumeric'.val

\* PricedFrom for the estimate, or without one for fallback / fallbackDen
PricedFromEstimate(intelligentAvg, fallback, fallbackDen) ==
    IF ~intelligentAvg.null
    THEN PricedFrom(intelligentAvg.pence, steps, intelligentAvg.under)
    ELSE PricedFrom(fallback, fallbackDen, FALSE)

\* C22 as stated: after a successful scrape with at least one valid listing
\* the RRP is round(E) and the offer round(0.4 E), E being the time-weighted
\* estimate of the cleaned listings when it is not null and otherwise their
\* plain average (the sum of their prices over their number); the offer is
\* never above the RRP.
C22_AsStated ==
    [][ScrapeSucceeded /\ ebayPriceCache'.listings # <<>>
         => PricedFromEstimate(
                calculateIntelligentAverage(JustCleaned, now, fpTie, steps),
                SumSeq(ValidPrices(JustCleaned)),
                steps * Len(ValidPrices(JustCleaned)))]_vars

\* C26 as stated: whenever the page shows statistics of cached listings they
\* and the RRP are those of the raw valid listings if the show-anomalies box
\* is checked and those of the outlier-filtered listings if it is not.
C26_AsStated ==
    ebayPriceCache.set /\ ~priceStats.nodata
      => /\ priceStats =
              calculateStats(ListingsShown(ebayPriceCache.listings,
                                           showAnomalies), steps)
         /\ ebayRrpNumeric =
              RrpAfter(AvgNum(ListingsShown(ebayPriceCache.listings,
                                            showAnomalies), now, fpTie, steps),
                       JsNull)

\* C27 as stated: saved listings with a usable price are saved together with
\* statistics that are not the reset '-' and with a numeric RRP and offer.
C27_AsStated ==
    ValidListings(wizardStateEbay.listings) # <<>>
      => /\ ~wizardStateEbay.prices.nodata
         /\ wizardStateEbay.rrp.kind = "num"
         /\ wizardStateEbay.selectedOffer.kind = "num"

\* C28 as stated: at most one scrape request is awaited at any time, and
\* isEbayScraping is true exactly while one is: every promise of
\* sendExtensionMessage is that of a scrape counted in nScrapes, and the flag
\* is false again once the scrape has ended, however it ended.
C28_AsStated ==
    /\ Cardinality(scrapes) <= 1
    /\ isEbayScraping <=> scrapes # {}
    /\ Len(promises) = nScrapes

\* C29 as stated: at step 2 the filters in the container are those fetched
\* for the search term now in the input.
C29_AsStated ==
    ebayWizardStep = 2 /\ filtersFor # NoFilters => filtersFor = searchInput

====
